---- MODULE Spec2Model ----
(***************************************************************************)
(* Patch engine of the Local Coding Agent (src/agent/tools/patch.py) and   *)
(* the `patch` and `edit` commands that drive it (src/agent/cli.py); the   *)
(* `run` command (src/agent/tools/shell.py), LLMClient.chat                *)
(* (src/agent/llm.py) and the agent state (src/agent/state.py).            *)
(*                                                                         *)
(* Text is a sequence of one-character strings, so that str.split,         *)
(* str.splitlines, str.startswith, str.strip, the hunk-header regular      *)
(* expression and '\n'.join are computed on characters, as the code does.  *)
(***************************************************************************)
EXTENDS Integers, Sequences, FiniteSets, TLC

VARIABLES
    fs,             \* the files on disk: resolved path -> text
    fs0,            \* the files on disk when the command started
    patch_content,  \* the patch text (from the LLM, or from generate_file_patch)
    modified,       \* generate_file_patch's new_content argument
    pc,             \* the position of the running command
    files_data,     \* apply_patch_file: the parsed file records
    idx,            \* apply_patch_file: 1-based position of the for loop
    results,        \* apply_patch_file: the PatchResult list
    saved,          \* where save_patch put the patch text
    io_fault,       \* the I/O error the environment raises in this run
    command,        \* run: the command line given to the command
    executed,       \* run: the commands execute_command was called with
    shell_result,   \* run: the ShellResult of execute_command, <<>> before it
    command_log,    \* run: the entries log_command wrote
    asked,          \* run: <<>>, or <<answer>> of Confirm.ask once it was asked
    max_retries,    \* LLMClient.chat: its argument
    attempt,        \* LLMClient.chat: the loop variable
    outcomes,       \* LLMClient.chat: what each attempt made so far gave
    chat_return,    \* LLMClient.chat: what it returned, <<>> for None, else <<content>>
    agent_state,    \* StateManager._state: <<>> for None, else <<AgentState>>
    state_file,     \* the state file: <<>> when absent, else <<content>>
    fresh_state,    \* _state of a second StateManager on the same file
    file_reads,     \* how often the second StateManager opened the file
    last_return     \* what the last AgentState method call returned

\* the variables of the run command, of LLMClient.chat, and of the agent
\* state and its StateManager
shell_vars == <<command, executed, shell_result, command_log, asked>>
llm_vars == <<max_retries, attempt, outcomes, chat_return>>
state_vars == <<agent_state, state_file, fresh_state, file_reads, last_return>>

\* the variables of the patch engine and of the commands that drive it
patch_vars == <<fs, fs0, patch_content, modified, files_data, idx, results, saved, io_fault>>

vars == <<pc, patch_vars, shell_vars, llm_vars, state_vars>>

\* a command that runs no shell command, asks no LLM, keeps no agent state
ShellIdle ==
    /\ command = <<>> /\ executed = <<>> /\ shell_result = <<>>
    /\ command_log = <<>> /\ asked = <<>>
LLMIdle == max_retries = 0 /\ attempt = 0 /\ outcomes = <<>> /\ chat_return = <<>>
StateIdle ==
    /\ agent_state = <<>> /\ state_file = <<>> /\ fresh_state = <<>>
    /\ file_reads = 0 /\ last_return = [op |-> "none", arg |-> 0, value |-> TRUE]

----------------------------------------------------------------------------
(* Characters and Python's str operations                                   *)

NL == "\n"
CR == "\r"

Digits == <<"0", "1", "2", "3", "4", "5", "6", "7", "8", "9">>

IsDigit(c) == \E d \in 1..10 : Digits[d] = c

DigitVal(c) == (CHOOSE d \in 1..10 : Digits[d] = c) - 1

\* str.isspace for the characters that occur
IsSpace(c) == c \in {" ", "\t", NL, CR}

\* s.startswith(p)
StartsWith(s, p) == Len(s) >= Len(p) /\ SubSeq(s, 1, Len(p)) = p

\* s[n:]
DropFirst(s, n) == SubSeq(s, n + 1, Len(s))

RECURSIVE LStrip(_)
LStrip(s) == IF s # <<>> /\ IsSpace(Head(s)) THEN LStrip(Tail(s)) ELSE s

RECURSIVE RStrip(_)
RStrip(s) ==
    IF s # <<>> /\ IsSpace(s[Len(s)]) THEN RStrip(SubSeq(s, 1, Len(s) - 1)) ELSE s

\* s.strip()
Strip(s) == RStrip(LStrip(s))

\* s.split(sep) for a one-character sep: always at least one piece
RECURSIVE SplitAcc(_, _, _, _)
SplitAcc(s, sep, cur, acc) ==
    IF s = <<>> THEN Append(acc, cur)
    ELSE IF Head(s) = sep THEN SplitAcc(Tail(s), sep, <<>>, Append(acc, cur))
    ELSE SplitAcc(Tail(s), sep, Append(cur, Head(s)), acc)

Split(s, sep) == SplitAcc(s, sep, <<>>, <<>>)

\* s.splitlines(): breaks at \n, \r and \r\n, terminators dropped, no empty
\* last piece after a final terminator
RECURSIVE SplitLinesAcc(_, _, _)
SplitLinesAcc(s, cur, acc) ==
    IF s = <<>> THEN (IF cur = <<>> THEN acc ELSE Append(acc, cur))
    ELSE IF Head(s) = CR /\ Len(s) >= 2 /\ s[2] = NL
         THEN SplitLinesAcc(DropFirst(s, 2), <<>>, Append(acc, cur))
    ELSE IF Head(s) \in {NL, CR}
         THEN SplitLinesAcc(Tail(s), <<>>, Append(acc, cur))
    ELSE SplitLinesAcc(Tail(s), Append(cur, Head(s)), acc)

SplitLines(s) == SplitLinesAcc(s, <<>>, <<>>)

\* s.splitlines(keepends=True)
RECURSIVE SplitKeepAcc(_, _, _)
SplitKeepAcc(s, cur, acc) ==
    IF s = <<>> THEN (IF cur = <<>> THEN acc ELSE Append(acc, cur))
    ELSE IF Head(s) = CR /\ Len(s) >= 2 /\ s[2] = NL
         THEN SplitKeepAcc(DropFirst(s, 2), <<>>, Append(acc, cur \o <<CR, NL>>))
    ELSE IF Head(s) \in {NL, CR}
         THEN SplitKeepAcc(Tail(s), <<>>, Append(acc, Append(cur, Head(s))))
    ELSE SplitKeepAcc(Tail(s), Append(cur, Head(s)), acc)

SplitLinesKeepEnds(s) == SplitKeepAcc(s, <<>>, <<>>)

\* sep.join(parts)
RECURSIVE Join(_, _)
Join(parts, sep) ==
    IF parts = <<>> THEN <<>>
    ELSE IF Len(parts) = 1 THEN parts[1]
    ELSE parts[1] \o sep \o Join(Tail(parts), sep)

\* ''.join(parts)
Concat(parts) == Join(parts, <<>>)

\* str(n) for n >= 0
RECURSIVE IntToStr(_)
IntToStr(n) ==
    IF n < 10 THEN <<Digits[n + 1]>>
    ELSE Append(IntToStr(n \div 10), Digits[(n % 10) + 1])

\* int(s) for a string of digits
RECURSIVE StrToIntAcc(_, _)
StrToIntAcc(s, acc) ==
    IF s = <<>> THEN acc ELSE StrToIntAcc(Tail(s), 10 * acc + DigitVal(Head(s)))

StrToInt(s) == StrToIntAcc(s, 0)

\* a \d* that takes one digit at most
TakeDigits_OneDigit(s) ==
    IF s # <<>> /\ IsDigit(Head(s)) THEN <<Head(s)>> ELSE <<>>

\* the longest prefix of s made of digits (a greedy \d*)
RECURSIVE TakeDigits(_)
TakeDigits(s) ==
    IF s # <<>> /\ IsDigit(Head(s)) THEN <<Head(s)>> \o TakeDigits(Tail(s)) ELSE <<>>

----------------------------------------------------------------------------
(* parse_unified_diff                                                       *)

OldFileMarker == <<"-", "-", "-", " ">>
NewFileMarker == <<"+", "+", "+", " ">>
HunkMarker == <<"@", "@">>
ThreeDashes == <<"-", "-", "-">>

\* re.match(r'@@ -(\d+),?(\d*) \+(\d+),?(\d*) @@', line): the four groups, or
\* no match.  Each quantifier is greedy; giving digits back from a \d+ to
\* the \d* behind it never changes the character that follows them, so the
\* greedy reading is the match whenever there is one.
SkipComma(s) == IF s # <<>> /\ Head(s) = "," THEN Tail(s) ELSE s

MatchHunkHeader(line) ==
    LET r1 == DropFirst(line, 4)
        g1 == TakeDigits(r1)
        r2 == SkipComma(DropFirst(r1, Len(g1)))
        g2 == TakeDigits(r2)
        r3 == DropFirst(r2, Len(g2))
        r4 == DropFirst(r3, 2)
        g3 == TakeDigits(r4)
        r5 == SkipComma(DropFirst(r4, Len(g3)))
        g4 == TakeDigits(r5)
        r6 == DropFirst(r5, Len(g4))
    IN  [ok |-> /\ StartsWith(line, <<"@", "@", " ", "-">>)
                /\ g1 # <<>>
                /\ StartsWith(r3, <<" ", "+">>)
                /\ g3 # <<>>
                /\ StartsWith(r6, <<" ", "@", "@">>),
         g1 |-> g1, g2 |-> g2, g3 |-> g3, g4 |-> g4]

\* the inner while loop without the test for '---': a file header does not
\* end the hunk
RECURSIVE HunkEnd_PastFileHeader(_, _)
HunkEnd_PastFileHeader(lines, i) ==
    IF i > Len(lines) THEN i
    ELSE IF StartsWith(lines[i], HunkMarker) THEN i
    ELSE HunkEnd_PastFileHeader(lines, i + 1)

\* the inner while loop, left at the first line that starts with none of
\* ' ', '+', '-' as well
RECURSIVE HunkEnd_AtOtherLine(_, _)
HunkEnd_AtOtherLine(lines, i) ==
    IF i > Len(lines) THEN i
    ELSE IF StartsWith(lines[i], HunkMarker) \/ StartsWith(lines[i], ThreeDashes) THEN i
    ELSE IF ~(StartsWith(lines[i], <<" ">>) \/ StartsWith(lines[i], <<"+">>)
              \/ StartsWith(lines[i], <<"-">>)) THEN i
    ELSE HunkEnd_AtOtherLine(lines, i + 1)

\* the inner while loop: the index of the first line at or after i that
\* starts with '@@' or '---', or Len(lines) + 1
RECURSIVE HunkEnd(_, _)
HunkEnd(lines, i) ==
    IF i > Len(lines) THEN i
    ELSE IF StartsWith(lines[i], HunkMarker) \/ StartsWith(lines[i], ThreeDashes) THEN i
    ELSE HunkEnd(lines, i + 1)

IsHunkLine(l) == StartsWith(l, <<" ">>) \/ StartsWith(l, <<"+">>) \/ StartsWith(l, <<"-">>)

\* the lines i..j-1 that start with ' ', '+' or '-'
RECURSIVE HunkLines(_, _, _)
HunkLines(lines, i, j) ==
    IF i >= j THEN <<>>
    ELSE (IF IsHunkLine(lines[i]) THEN <<lines[i]>> ELSE <<>>) \o HunkLines(lines, i + 1, j)

\* the outer while loop; cur is <<>> for current_file = None, else <<record>>
RECURSIVE ParseLoop(_, _, _, _)
ParseLoop(lines, i, files, cur) ==
    IF i > Len(lines) THEN files \o cur
    ELSE LET line == lines[i] IN
         IF StartsWith(line, OldFileMarker)
         THEN ParseLoop(lines, i + 1, files \o cur,
                        <<[original_file |-> Strip(DropFirst(line, 4)),
                           modified_file |-> <<>>,
                           hunks |-> <<>>]>>)
         ELSE IF StartsWith(line, NewFileMarker) /\ cur # <<>>
         THEN ParseLoop(lines, i + 1, files,
                        <<[cur[1] EXCEPT !.modified_file = Strip(DropFirst(line, 4))]>>)
         ELSE IF StartsWith(line, HunkMarker) /\ cur # <<>> /\ MatchHunkHeader(line).ok
         THEN LET m == MatchHunkHeader(line)
                  j == HunkEnd(lines, i + 1)
                  hunk == [old_start |-> StrToInt(m.g1),
                           old_count |-> IF m.g2 # <<>> THEN StrToInt(m.g2) ELSE 1,
                           new_start |-> StrToInt(m.g3),
                           new_count |-> IF m.g4 # <<>> THEN StrToInt(m.g4) ELSE 1,
                           lines |-> HunkLines(lines, i + 1, j)]
              IN  ParseLoop(lines, j, files,
                            <<[cur[1] EXCEPT !.hunks = Append(@, hunk)]>>)
         ELSE ParseLoop(lines, i + 1, files, cur)

\* parse_unified_diff with current_file set to a blank record at the start
parse_unified_diff_BlankRecord(text) ==
    ParseLoop(Split(text, NL), 1, <<>>,
              <<[original_file |-> <<>>, modified_file |-> <<>>, hunks |-> <<>>]>>)

parse_unified_diff(text) == ParseLoop(Split(text, NL), 1, <<>>, <<>>)

----------------------------------------------------------------------------
(* validate_patch                                                           *)

\* PatchResult: success and the kind of message
PatchResult(success, message) == [success |-> success, message |-> message]

\* validate_patch that looks at the hunks of the first file record only
validate_patch_FirstOnly(text) ==
    IF Strip(text) = <<>> THEN PatchResult(FALSE, "Empty patch content")
    ELSE LET fd == parse_unified_diff(text) IN
         IF fd = <<>> THEN PatchResult(FALSE, "No valid file changes found in patch")
         ELSE IF fd[1].hunks = <<>>
         THEN PatchResult(FALSE, "No hunks found for file")
         ELSE PatchResult(TRUE, "Valid patch")

validate_patch(text) ==
    IF Strip(text) = <<>> THEN PatchResult(FALSE, "Empty patch content")
    ELSE LET fd == parse_unified_diff(text) IN
         IF fd = <<>> THEN PatchResult(FALSE, "No valid file changes found in patch")
         ELSE IF \E k \in 1..Len(fd) : fd[k].hunks = <<>>
         THEN PatchResult(FALSE, "No hunks found for file")
         ELSE PatchResult(TRUE, "Valid patch")

----------------------------------------------------------------------------
(* The file system as pathlib sees it                                       *)

\* config.agent_workdir, resolved
BaseDir == <<"/", "w">>

Slash == "/"

\* base / file_path: an absolute right-hand side replaces the left one
JoinPath(base, file_path) ==
    IF StartsWith(file_path, <<Slash>>) THEN file_path
    ELSE IF file_path = <<>> THEN base
    ELSE base \o <<Slash>> \o file_path

\* Path.resolve() without symbolic links: '' and '.' components vanish and
\* '..' removes the component before it (the root is its own parent)
RECURSIVE ResolveParts(_, _)
ResolveParts(parts, stack) ==
    IF parts = <<>> THEN stack
    ELSE IF Head(parts) \in {<<>>, <<".">>} THEN ResolveParts(Tail(parts), stack)
    ELSE IF Head(parts) = <<".", ".">>
         THEN ResolveParts(Tail(parts),
                           IF stack = <<>> THEN stack ELSE SubSeq(stack, 1, Len(stack) - 1))
    ELSE ResolveParts(Tail(parts), Append(stack, Head(parts)))

Resolve(path) == <<Slash>> \o Join(ResolveParts(Split(path, Slash), <<>>), <<Slash>>)

\* a path is a directory when it is the working directory, one of its
\* ancestors, or an ancestor of a file
IsDir(fsys, p) ==
    \/ StartsWith(BaseDir \o <<Slash>>, IF p = <<Slash>> THEN p ELSE p \o <<Slash>>)
    \/ \E f \in DOMAIN fsys : StartsWith(f, IF p = <<Slash>> THEN p ELSE p \o <<Slash>>)

\* Path.exists()
Exists(fsys, p) == p \in DOMAIN fsys \/ IsDir(fsys, p)

\* some ancestor of p is a regular file, so mkdir(parents=True) fails
AncestorIsFile(fsys, p) ==
    \E f \in DOMAIN fsys : StartsWith(p, f \o <<Slash>>)

WriteText(fsys, p, text) ==
    [q \in DOMAIN fsys \cup {p} |-> IF q = p THEN text ELSE fsys[q]]

----------------------------------------------------------------------------
(* apply_patch_to_file                                                      *)

Min(a, b) == IF a < b THEN a ELSE b
Max(a, b) == IF a > b THEN a ELSE b

\* Python's lines[s:e] = new: a negative index counts from the end, both
\* are clamped to 0..len, and a slice that ends before it starts is empty
SliceIndex(k, n) == IF k < 0 THEN Max(k + n, 0) ELSE Min(k, n)

SliceAssign(lines, s, e, new) ==
    LET n == Len(lines)
        lo == SliceIndex(s, n)
        hi == Max(SliceIndex(e, n), lo)
    IN  SubSeq(lines, 1, lo) \o new \o SubSeq(lines, hi + 1, n)

\* NewLines that keeps the first character of each line
RECURSIVE NewLines_Tagged(_)
NewLines_Tagged(hunk_lines) ==
    IF hunk_lines = <<>> THEN <<>>
    ELSE (IF Head(hunk_lines)[1] \in {"+", " "}
          THEN <<Head(hunk_lines)>> ELSE <<>>) \o NewLines_Tagged(Tail(hunk_lines))

\* the '+' and ' ' lines of a hunk, without their first character
RECURSIVE NewLines(_)
NewLines(hunk_lines) ==
    IF hunk_lines = <<>> THEN <<>>
    ELSE (IF Head(hunk_lines)[1] \in {"+", " "}
          THEN <<Tail(Head(hunk_lines))>> ELSE <<>>) \o NewLines(Tail(hunk_lines))

\* ApplyHunk without the conversion of old_start to a 0-based index
ApplyHunk_OneBased(lines, hunk) ==
    SliceAssign(lines, hunk.old_start, hunk.old_start + hunk.old_count, NewLines(hunk.lines))

\* one iteration of the hunk loop
ApplyHunk(lines, hunk) ==
    LET old_start == hunk.old_start - 1
        end_line == old_start + hunk.old_count
    IN  SliceAssign(lines, old_start, end_line, NewLines(hunk.lines))

\* the hunk loop without reversed(): the first hunk of the list is applied
\* first, every hunk at its own old_start
RECURSIVE ApplyHunksInOrder(_, _)
ApplyHunksInOrder(lines, hunks) ==
    IF hunks = <<>> THEN lines
    ELSE ApplyHunksInOrder(ApplyHunk(lines, Head(hunks)), Tail(hunks))

\* the hunks in ascending old_start order, hunks of equal start as listed
RECURSIVE InsertHunk(_, _)
InsertHunk(hunk, sorted) ==
    IF sorted = <<>> THEN <<hunk>>
    ELSE IF hunk.old_start < Head(sorted).old_start THEN <<hunk>> \o sorted
    ELSE <<Head(sorted)>> \o InsertHunk(hunk, Tail(sorted))

RECURSIVE SortHunks(_)
SortHunks(hunks) ==
    IF hunks = <<>> THEN <<>>
    ELSE InsertHunk(hunks[Len(hunks)], SortHunks(SubSeq(hunks, 1, Len(hunks) - 1)))

Reversed(seq) == [k \in 1..Len(seq) |-> seq[Len(seq) + 1 - k]]

\* the hunk loop over the hunks sorted by old_start, the highest first
ApplyHunksSorted(lines, hunks) == ApplyHunksInOrder(lines, Reversed(SortHunks(hunks)))

\* for hunk in reversed(hunks): the last hunk of the list is applied first
RECURSIVE ApplyHunksReversed(_, _)
ApplyHunksReversed(lines, hunks) ==
    IF hunks = <<>> THEN lines
    ELSE ApplyHunksReversed(ApplyHunk(lines, hunks[Len(hunks)]),
                            SubSeq(hunks, 1, Len(hunks) - 1))

\* '\n'.join(lines) + '\n'
WrittenText(lines) == Join(lines, <<NL>>) \o <<NL>>

\* apply_patch_to_file(file_path, patch_data) on the file system fsys;
\* read_fails and write_fails are the I/O errors the environment may raise.
\* Returns the PatchResult and the file system afterwards.
apply_patch_to_file(fsys, file_path, patch_data, read_fails, write_fails) ==
    IF Exists(fsys, file_path) /\ (IsDir(fsys, file_path) \/ read_fails)
    THEN [result |-> PatchResult(FALSE, "Error reading file"), fs |-> fsys]
    ELSE LET lines == IF Exists(fsys, file_path) THEN SplitLines(fsys[file_path]) ELSE <<>>
             patched == ApplyHunksReversed(lines, patch_data.hunks)
         IN  IF write_fails \/ AncestorIsFile(fsys, file_path)
             THEN [result |-> PatchResult(FALSE, "Error writing file"), fs |-> fsys]
             ELSE [result |-> PatchResult(TRUE, "Patch applied successfully"),
                   fs |-> WriteText(fsys, file_path, WrittenText(patched))]

----------------------------------------------------------------------------
(* generate_unified_diff: difflib.unified_diff over the two line lists.     *)
(* Positions are Python's: 0-based, ranges half open.                       *)

\* the n of difflib.unified_diff, left at its default by the call
ContextLines == 3

\* a[i:i+k] == b[j:j+k]
SameRun(a, b, i, j, k) == \A d \in 1..k : a[i + d] = b[j + d]

\* SequenceMatcher.find_longest_match(alo, ahi, blo, bhi) without junk: the
\* longest common run, of those the earliest in a, of those the earliest in b
FindLongestMatch(a, b, alo, ahi, blo, bhi) ==
    LET runs == {r \in (alo..(ahi - 1)) \X (blo..(bhi - 1)) \X (1..(ahi - alo)) :
                    /\ r[1] + r[3] <= ahi
                    /\ r[2] + r[3] <= bhi
                    /\ SameRun(a, b, r[1], r[2], r[3])}
        Better(r, q) ==
            \/ r[3] > q[3]
            \/ r[3] = q[3] /\ r[1] < q[1]
            \/ r[3] = q[3] /\ r[1] = q[1] /\ r[2] < q[2]
    IN  IF runs = {} THEN <<alo, blo, 0>>
        ELSE CHOOSE r \in runs : \A q \in runs \ {r} : Better(r, q)

\* get_matching_blocks before the merge: the longest match, then the same to
\* its left and to its right
RECURSIVE MatchingBlocksIn(_, _, _, _, _, _)
MatchingBlocksIn(a, b, alo, ahi, blo, bhi) ==
    LET m == FindLongestMatch(a, b, alo, ahi, blo, bhi) IN
    IF m[3] = 0 THEN <<>>
    ELSE (IF alo < m[1] /\ blo < m[2]
          THEN MatchingBlocksIn(a, b, alo, m[1], blo, m[2]) ELSE <<>>)
         \o <<m>>
         \o (IF m[1] + m[3] < ahi /\ m[2] + m[3] < bhi
             THEN MatchingBlocksIn(a, b, m[1] + m[3], ahi, m[2] + m[3], bhi) ELSE <<>>)

\* adjacent blocks collapse into one
RECURSIVE MergeAdjacent(_)
MergeAdjacent(blocks) ==
    IF Len(blocks) < 2 THEN blocks
    ELSE IF blocks[1][1] + blocks[1][3] = blocks[2][1]
            /\ blocks[1][2] + blocks[1][3] = blocks[2][2]
    THEN MergeAdjacent(<<<<blocks[1][1], blocks[1][2], blocks[1][3] + blocks[2][3]>>>>
                       \o SubSeq(blocks, 3, Len(blocks)))
    ELSE <<blocks[1]>> \o MergeAdjacent(Tail(blocks))

\* get_matching_blocks: with the sentinel (len(a), len(b), 0)
MatchingBlocks(a, b) ==
    Append(MergeAdjacent(MatchingBlocksIn(a, b, 0, Len(a), 0, Len(b))),
           <<Len(a), Len(b), 0>>)

\* get_opcodes: <<tag, i1, i2, j1, j2>>
RECURSIVE OpcodesFrom(_, _, _)
OpcodesFrom(blocks, i, j) ==
    IF blocks = <<>> THEN <<>>
    ELSE LET ai == blocks[1][1]
             bj == blocks[1][2]
             size == blocks[1][3]
             tag == IF i < ai /\ j < bj THEN "replace"
                    ELSE IF i < ai THEN "delete"
                    ELSE IF j < bj THEN "insert" ELSE ""
         IN  (IF tag # "" THEN <<<<tag, i, ai, j, bj>>>> ELSE <<>>)
             \o (IF size > 0 THEN <<<<"equal", ai, ai + size, bj, bj + size>>>> ELSE <<>>)
             \o OpcodesFrom(Tail(blocks), ai + size, bj + size)

Opcodes(a, b) == OpcodesFrom(MatchingBlocks(a, b), 0, 0)

\* get_grouped_opcodes(n): the leading and the trailing equal run are cut to
\* n lines, and an equal run longer than 2n splits the groups
TrimEnds(codes, n) ==
    LET c0 == IF codes = <<>> THEN <<<<"equal", 0, 1, 0, 1>>>> ELSE codes
        c1 == IF c0[1][1] = "equal"
              THEN [c0 EXCEPT ![1] = <<"equal", Max(@[2], @[3] - n), @[3],
                                       Max(@[4], @[5] - n), @[5]>>]
              ELSE c0
        last == Len(c1)
    IN  IF c1[last][1] = "equal"
        THEN [c1 EXCEPT ![last] = <<"equal", @[2], Min(@[3], @[2] + n),
                                    @[4], Min(@[5], @[4] + n)>>]
        ELSE c1

RECURSIVE GroupsFrom(_, _, _, _)
GroupsFrom(codes, n, group, groups) ==
    IF codes = <<>>
    THEN IF group # <<>> /\ ~(Len(group) = 1 /\ group[1][1] = "equal")
         THEN Append(groups, group) ELSE groups
    ELSE LET c == codes[1] IN
         IF c[1] = "equal" /\ c[3] - c[2] > n + n
         THEN GroupsFrom(Tail(codes), n,
                         <<<<"equal", Max(c[2], c[3] - n), c[3], Max(c[4], c[5] - n), c[5]>>>>,
                         Append(groups,
                                Append(group, <<"equal", c[2], Min(c[3], c[2] + n),
                                                c[4], Min(c[5], c[4] + n)>>)))
         ELSE GroupsFrom(Tail(codes), n, Append(group, c), groups)

GroupedOpcodes(a, b, n) == GroupsFrom(TrimEnds(Opcodes(a, b), n), n, <<>>, <<>>)

\* difflib._format_range_unified(start, stop)
FormatRangeUnified(start, stop) ==
    IF stop - start = 1 THEN IntToStr(start + 1)
    ELSE IF stop - start = 0 THEN IntToStr(start) \o <<",">> \o IntToStr(0)
    ELSE IntToStr(start + 1) \o <<",">> \o IntToStr(stop - start)

\* tag + line for the lines a[i1:i2]
Prefixed(tag, a, i1, i2) == [k \in 1..(i2 - i1) |-> <<tag>> \o a[i1 + k]]

RECURSIVE GroupBody(_, _, _)
GroupBody(group, a, b) ==
    IF group = <<>> THEN <<>>
    ELSE LET c == group[1] IN
         (IF c[1] = "equal" THEN Prefixed(" ", a, c[2], c[3])
          ELSE (IF c[1] \in {"replace", "delete"} THEN Prefixed("-", a, c[2], c[3]) ELSE <<>>)
               \o (IF c[1] \in {"replace", "insert"} THEN Prefixed("+", b, c[4], c[5]) ELSE <<>>))
         \o GroupBody(Tail(group), a, b)

\* the strings one group yields: the '@@' line ended by lineterm, then the
\* tagged lines, each with the line ending it has in the file
GroupOutput(group, a, b, lineterm) ==
    <<<<"@", "@", " ", "-">>
        \o FormatRangeUnified(group[1][2], group[Len(group)][3])
        \o <<" ", "+">>
        \o FormatRangeUnified(group[1][4], group[Len(group)][5])
        \o <<" ", "@", "@">> \o lineterm>>
    \o GroupBody(group, a, b)

RECURSIVE GroupsOutput(_, _, _, _)
GroupsOutput(groups, a, b, lineterm) ==
    IF groups = <<>> THEN <<>>
    ELSE GroupOutput(groups[1], a, b, lineterm) \o GroupsOutput(Tail(groups), a, b, lineterm)

\* difflib.unified_diff(a, b, fromfile, tofile, lineterm=lineterm): the
\* strings it yields; nothing when there is no group
UnifiedDiff(a, b, fromfile, tofile, lineterm) ==
    LET groups == GroupedOpcodes(a, b, ContextLines) IN
    IF groups = <<>> THEN <<>>
    ELSE <<OldFileMarker \o fromfile \o lineterm, NewFileMarker \o tofile \o lineterm>>
         \o GroupsOutput(groups, a, b, lineterm)

\* generate_unified_diff(original_content, modified_content, filename):
\* the lines keep their ends, lineterm is '' and the strings are joined by ''
generate_unified_diff(original_content, modified_content, filename) ==
    Concat(UnifiedDiff(SplitLinesKeepEnds(original_content),
                       SplitLinesKeepEnds(modified_content),
                       <<"a", Slash>> \o filename,
                       <<"b", Slash>> \o filename,
                       <<>>))

\* generate_file_patch(file_path, new_content) in the working directory:
\* the PatchResult with its patch_content
generate_file_patch(fsys, file_path, new_content, read_fails) ==
    LET target == Resolve(JoinPath(BaseDir, file_path)) IN
    IF Exists(fsys, target) /\ (IsDir(fsys, target) \/ read_fails)
    THEN [success |-> FALSE, message |-> "Error reading file", patch_content |-> <<>>]
    ELSE LET original_content == IF Exists(fsys, target) THEN fsys[target] ELSE <<>>
             patch == generate_unified_diff(original_content, new_content, file_path)
         IN  IF original_content = new_content
             THEN [success |-> TRUE, message |-> "No changes needed", patch_content |-> <<>>]
             ELSE IF patch = <<>>
             THEN [success |-> FALSE, message |-> "Failed to generate diff",
                   patch_content |-> <<>>]
             ELSE [success |-> TRUE, message |-> "Patch generated", patch_content |-> patch]

----------------------------------------------------------------------------
(* apply_patch_file, one loop iteration at a time                           *)

BPrefix == <<"b", Slash>>

\* file_data['modified_file'] without a leading 'b/'
TargetOf(file_data) ==
    IF StartsWith(file_data.modified_file, BPrefix)
    THEN DropFirst(file_data.modified_file, 2)
    ELSE file_data.modified_file

\* (base_dir / file_path).resolve()
FullPath(file_data) == Resolve(JoinPath(BaseDir, TargetOf(file_data)))

\* str(full_path).startswith(str(base_dir_resolved))
InsideBase(full_path) == StartsWith(full_path, Resolve(BaseDir))

\* the environment: with io_fault "read" the file f of the working directory
\* cannot be read (read_text raises), with "write" it cannot be written
FaultyPath == BaseDir \o <<Slash, "f">>
ReadFails(p) == io_fault = "read" /\ p = FaultyPath
WriteFails(p) == io_fault = "write" /\ p = FaultyPath

\* the body of `for file_data in files_data` for one record (dry_run=False)
ProcessFile(fsys, file_data) ==
    IF ~InsideBase(FullPath(file_data))
    THEN [result |-> PatchResult(FALSE, "Path outside base directory"), fs |-> fsys]
    ELSE apply_patch_to_file(fsys, FullPath(file_data), file_data,
                             ReadFails(FullPath(file_data)), WriteFails(FullPath(file_data)))

----------------------------------------------------------------------------
(* The patch command                                                        *)

\* validate_patch, then save_patch of the text: an invalid patch goes to the
\* reports directory and the command exits
Validate ==
    /\ pc = "generated"
    /\ IF patch_content = <<>>
       THEN pc' = "failed" /\ saved' = saved
       ELSE IF ~validate_patch(patch_content).success
       THEN pc' = "invalid" /\ saved' = "reports"
       ELSE pc' = "saved" /\ saved' = "patches"
    /\ UNCHANGED <<shell_vars, llm_vars, state_vars, fs, fs0, patch_content, modified, files_data, idx, results, io_fault>>

\* `if apply or Confirm.ask(...)`, then the head of apply_patch_file: the
\* saved patch is read back and parsed
Confirm ==
    /\ pc = "saved"
    /\ \E answer \in BOOLEAN :
         IF ~answer
         THEN pc' = "done" /\ UNCHANGED <<shell_vars, llm_vars, state_vars, files_data, idx, results>>
         ELSE LET parsed == parse_unified_diff(patch_content) IN
              /\ files_data' = parsed
              /\ idx' = 1
              /\ IF parsed = <<>>
                 THEN /\ results' = <<PatchResult(FALSE, "No valid patch data found")>>
                      /\ pc' = "report"
                 ELSE /\ results' = <<>>
                      /\ pc' = "applying"
    /\ UNCHANGED <<shell_vars, llm_vars, state_vars, fs, fs0, patch_content, modified, saved, io_fault>>

\* ApplyNextFile that leaves the loop at the first failed file
ApplyNextFile_StopsOnFailure ==
    /\ pc = "applying"
    /\ idx <= Len(files_data)
    /\ LET r == ProcessFile(fs, files_data[idx]) IN
         /\ fs' = r.fs
         /\ results' = Append(results, r.result)
         /\ pc' = IF idx = Len(files_data) \/ ~r.result.success THEN "report" ELSE "applying"
    /\ idx' = idx + 1
    /\ UNCHANGED <<shell_vars, llm_vars, state_vars, fs0, patch_content, modified, files_data, saved, io_fault>>

\* one iteration of the for loop of apply_patch_file
ApplyNextFile ==
    /\ pc = "applying"
    /\ idx <= Len(files_data)
    /\ LET r == ProcessFile(fs, files_data[idx]) IN
         /\ fs' = r.fs
         /\ results' = Append(results, r.result)
    /\ idx' = idx + 1
    /\ pc' = IF idx = Len(files_data) THEN "report" ELSE "applying"
    /\ UNCHANGED <<shell_vars, llm_vars, state_vars, fs0, patch_content, modified, files_data, saved, io_fault>>

\* the counts the command prints
RECURSIVE CountSuccess(_)
CountSuccess(rs) ==
    IF rs = <<>> THEN 0
    ELSE (IF Head(rs).success THEN 1 ELSE 0) + CountSuccess(Tail(rs))

success_count == CountSuccess(results)
total_count == Len(results)
failed_count == total_count - success_count

Report ==
    /\ pc = "report"
    /\ pc' = "done"
    /\ UNCHANGED <<shell_vars, llm_vars, state_vars, fs, fs0, patch_content, modified, files_data, idx, results, saved, io_fault>>

----------------------------------------------------------------------------
(* Inputs: the files of the working directory and the patch text            *)

MaxLines == 2       \* lines of a file before the command
MaxHunkLines == 2   \* lines of a hunk of a single-file patch
MaxFiles == 2       \* file diffs of a patch set

\* all sequences over S of length lo..hi
SeqsOf(S, lo, hi) == UNION {[1..n -> S] : n \in lo..hi}

\* a text from its lines, each ended by a newline
RECURSIVE TextOf(_)
TextOf(ls) == IF ls = <<>> THEN <<>> ELSE Head(ls) \o <<NL>> \o TextOf(Tail(ls))

LineTexts == {<<"a">>, <<"b">>}

\* the texts of at most MaxLines lines, with and without a final newline
FileTexts ==
    {TextOf(ls) : ls \in SeqsOf(LineTexts, 0, MaxLines)}
    \cup {Join(ls, <<NL>>) : ls \in SeqsOf(LineTexts, 1, MaxLines)}

PathF == BaseDir \o <<Slash, "f">>
PathG == BaseDir \o <<Slash, "g">>

\* the working directory with f and g holding the given texts; <<>> in the
\* first component of a pair means the file is absent
FileSystem(f, g) ==
    [q \in (IF f[1] THEN {PathF} ELSE {}) \cup (IF g[1] THEN {PathG} ELSE {})
        |-> IF q = PathF THEN f[2] ELSE g[2]]

Absent == <<FALSE, <<>>>>
Holding(text) == <<TRUE, text>>

\* the hunk header line '@@ -os,oc +ns,nc @@'
HunkHeader(os, oc, ns, nc) ==
    <<"@", "@", " ", "-">> \o IntToStr(os) \o <<",">> \o IntToStr(oc)
    \o <<" ", "+">> \o IntToStr(ns) \o <<",">> \o IntToStr(nc) \o <<" ", "@", "@">>

RECURSIVE CountTagged(_, _)
CountTagged(ls, tags) ==
    IF ls = <<>> THEN 0
    ELSE (IF Head(ls)[1] \in tags THEN 1 ELSE 0) + CountTagged(Tail(ls), tags)

\* the number of Context+Removed and of Context+Added lines of a hunk body
OldTally(ls) == CountTagged(ls, {" ", "-"})
NewTally(ls) == CountTagged(ls, {" ", "+"})

\* a hunk as text: its header and its lines
HunkText(os, oc, ns, nc, ls) == TextOf(<<HunkHeader(os, oc, ns, nc)>> \o ls)

\* a hunk whose header counts are the tallies of its lines
HonestHunk(os, ls) == HunkText(os, OldTally(ls), os, NewTally(ls), ls)

\* a file diff as text: the two header lines and the hunks
FileDiffText(old, new, hunks) ==
    TextOf(<<OldFileMarker \o old, NewFileMarker \o new>>) \o Concat(hunks)

Ctx(t) == <<" ">> \o t
Add(t) == <<"+">> \o t
Rem(t) == <<"-">> \o t

DevNull == <<Slash, "d", "e", "v", Slash, "n", "u", "l", "l">>
OldF == <<"a", Slash, "f">>
NewF == <<"b", Slash, "f">>
OldG == <<"a", Slash, "g">>
NewG == <<"b", Slash, "g">>
OldOutside == <<"a", Slash, ".", ".", Slash, "x">>
NewOutside == <<"b", Slash, ".", ".", Slash, "x">>

(* Single-file patches: one hunk at any position with any lines, honest counts *)
HunkLineChoices == {Ctx(<<"a">>), Ctx(<<"b">>), Rem(<<"a">>), Add(<<"x">>)}

SingleHunks ==
    {HonestHunk(os, ls) : os \in 0..(MaxLines + 1),
                          ls \in SeqsOf(HunkLineChoices, 1, MaxHunkLines)}

SinglePatches ==
    {FileDiffText(pair[1], pair[2], <<h>>) :
        pair \in {<<OldF, NewF>>, <<DevNull, NewF>>, <<OldF, DevNull>>}, h \in SingleHunks}

InitSingle ==
    /\ patch_content \in SinglePatches
    /\ \E f \in {Absent} \cup {Holding(t) : t \in FileTexts} : fs = FileSystem(f, Absent)
    /\ io_fault = "none"

(* The scenario of the design: "a\nb\nc\n" and a hunk at line 2 that keeps b
   and adds x *)
ExampleText == TextOf(<<<<"a">>, <<"b">>, <<"c">>>>)
ExamplePatch ==
    FileDiffText(OldF, NewF, <<HunkText(2, 1, 2, 2, <<Ctx(<<"b">>), Add(<<"x">>)>>)>>)

InitExample ==
    /\ patch_content = ExamplePatch
    /\ fs = FileSystem(Holding(ExampleText), Absent)
    /\ io_fault = "none"

(* Patch sets: up to MaxFiles file diffs, well formed or not *)
SetPaths ==
    {<<OldF, NewF>>, <<OldG, NewG>>, <<OldF, DevNull>>, <<OldOutside, NewOutside>>}

SetHunkLists ==
    { <<>>,                                               \* no hunk at all
      <<HonestHunk(1, <<Ctx(<<"a">>), Add(<<"x">>)>>)>>,  \* well formed
      <<HunkText(1, 2, 1, 1, <<Ctx(<<"a">>), Add(<<"x">>)>>)>> }  \* wrong counts

SetDiffs == {FileDiffText(pair[1], pair[2], hs) : pair \in SetPaths, hs \in SetHunkLists}

SetPatches == {Concat(ds) : ds \in SeqsOf(SetDiffs, 0, MaxFiles)}

InitSet ==
    /\ patch_content \in SetPatches
    /\ \E f \in {Holding(TextOf(<<<<"a">>>>)), Holding(TextOf(<<<<"b">>>>))} :
          fs = FileSystem(f, Holding(TextOf(<<<<"a">>>>)))
    /\ io_fault \in {"none", "read", "write"}

(* A patch for ../wx/f: a directory beside the working directory whose name
   starts with the working directory's name *)
OldSibling == <<"a", Slash, ".", ".", Slash, "w", "x", Slash, "f">>
NewSibling == <<"b", Slash, ".", ".", Slash, "w", "x", Slash, "f">>

SiblingPatches ==
    {FileDiffText(OldSibling, NewSibling, <<h>>) :
        h \in {HonestHunk(1, <<Add(<<"x">>)>>),
               HonestHunk(1, <<Ctx(<<"a">>), Add(<<"x">>)>>)}}

InitSibling ==
    /\ patch_content \in SiblingPatches
    /\ fs = FileSystem(Holding(TextOf(<<<<"a">>>>)), Absent)
    /\ io_fault = "none"

Init ==
    /\ ShellIdle /\ LLMIdle /\ StateIdle
    /\ InitSingle \/ InitExample \/ InitSet \/ InitSibling
    /\ fs0 = fs
    /\ modified = <<>>
    /\ pc = "generated"
    /\ files_data = <<>>
    /\ idx = 1
    /\ results = <<>>
    /\ saved = "nowhere"

Next == Validate \/ Confirm \/ ApplyNextFile \/ Report

Spec == Init /\ [][Next]_vars

----------------------------------------------------------------------------
(* apply_patch_file with dry_run=True, called on a saved patch file         *)

\* the loop body that applies the patch although dry_run is set
DryRunFile_Applies(fsys, file_data) == ProcessFile(fsys, file_data)

\* the body of `for file_data in files_data` for one record (dry_run=True)
DryRunFile(fsys, file_data) ==
    IF ~InsideBase(FullPath(file_data))
    THEN [result |-> PatchResult(FALSE, "Path outside base directory"), fs |-> fsys]
    ELSE [result |-> PatchResult(TRUE, "Would apply patch"), fs |-> fsys]

\* the head of apply_patch_file: with io_fault "patchfile" the patch file is
\* missing or unreadable; else it is read and parsed
DryRunStart ==
    /\ pc = "d_start"
    /\ IF io_fault = "patchfile"
       THEN /\ results' = <<PatchResult(FALSE, "Patch file not found")>>
            /\ files_data' = files_data
            /\ pc' = "d_done"
       ELSE LET parsed == parse_unified_diff(patch_content) IN
            /\ files_data' = parsed
            /\ IF parsed = <<>>
               THEN /\ results' = <<PatchResult(FALSE, "No valid patch data found")>>
                    /\ pc' = "d_done"
               ELSE /\ results' = <<>>
                    /\ pc' = "d_applying"
    /\ idx' = 1
    /\ UNCHANGED <<shell_vars, llm_vars, state_vars, fs, fs0, patch_content, modified, saved, io_fault>>

\* one iteration of the for loop, and the return behind the last one
DryRunNextFile ==
    /\ pc = "d_applying"
    /\ idx <= Len(files_data)
    /\ LET r == DryRunFile(fs, files_data[idx]) IN
         /\ fs' = r.fs
         /\ results' = Append(results, r.result)
    /\ idx' = idx + 1
    /\ pc' = IF idx = Len(files_data) THEN "d_done" ELSE "d_applying"
    /\ UNCHANGED <<shell_vars, llm_vars, state_vars, fs0, patch_content, modified, files_data, saved, io_fault>>

InitDryRun ==
    /\ ShellIdle /\ LLMIdle /\ StateIdle
    /\ patch_content \in SetPatches \cup SiblingPatches
    /\ \E f \in {Absent, Holding(TextOf(<<<<"a">>>>))} :
          fs = FileSystem(f, Holding(TextOf(<<<<"a">>>>)))
    /\ io_fault \in {"none", "patchfile"}
    /\ fs0 = fs
    /\ modified = <<>>
    /\ pc = "d_start"
    /\ files_data = <<>>
    /\ idx = 1
    /\ results = <<>>
    /\ saved = "patches"

NextDryRun == DryRunStart \/ DryRunNextFile

SpecDryRun == InitDryRun /\ [][NextDryRun]_vars

----------------------------------------------------------------------------

(* The round trip: generate_file_patch on a file and a new content, then the
   patch parsed and applied to the file as the edit command does            *)

EditedFile == <<"f">>

GeneratePatch ==
    /\ pc = "rt_start"
    /\ LET r == generate_file_patch(fs, EditedFile, modified, FALSE) IN
         /\ patch_content' = r.patch_content
         /\ pc' = IF r.success /\ r.patch_content # <<>> THEN "rt_generated" ELSE "rt_nothing"
    /\ UNCHANGED <<shell_vars, llm_vars, state_vars, fs, fs0, modified, files_data, idx, results, saved, io_fault>>

\* files_data = parse_unified_diff(patch_content), then
\* apply_patch_to_file(full_path, files_data[0]) when there is a record
ParseAndApply ==
    /\ pc = "rt_generated"
    /\ LET parsed == parse_unified_diff(patch_content)
           r == apply_patch_to_file(fs, Resolve(JoinPath(BaseDir, EditedFile)),
                                    parsed[1], FALSE, FALSE)
       IN  /\ files_data' = parsed
           /\ IF parsed # <<>>
              THEN fs' = r.fs /\ results' = <<r.result>>
              ELSE fs' = fs /\ results' = <<PatchResult(FALSE, "No valid patch data found")>>
    /\ pc' = "rt_done"
    /\ UNCHANGED <<shell_vars, llm_vars, state_vars, fs0, patch_content, modified, idx, saved, io_fault>>

InitRT ==
    /\ ShellIdle /\ LLMIdle /\ StateIdle
    /\ \E f \in {Absent} \cup {Holding(t) : t \in FileTexts} : fs = FileSystem(f, Absent)
    /\ modified \in FileTexts
    /\ fs0 = fs
    /\ patch_content = <<>>
    /\ pc = "rt_start"
    /\ files_data = <<>>
    /\ idx = 1
    /\ results = <<>>
    /\ saved = "nowhere"
    /\ io_fault = "none"

NextRT == GeneratePatch \/ ParseAndApply

SpecRT == InitRT /\ [][NextRT]_vars

----------------------------------------------------------------------------
(* create_backup                                                            *)

\* config.agent_state.parent / "backups", in the working directory
BackupDir ==
    BaseDir \o <<Slash, ".", "a", "g", "e", "n", "t", Slash,
                 "b", "a", "c", "k", "u", "p", "s">>

\* datetime.now().strftime(...): the second the backup is made in
Timestamp == <<"t">>

\* backup_dir / f"{source_path.name}.backup.{timestamp}"
BackupPath(name) ==
    BackupDir \o <<Slash>> \o name \o <<".", "b", "a", "c", "k", "u", "p", ".">> \o Timestamp

\* create_backup(file_path, backup_dir): the file system afterwards.  A
\* missing source returns None; an error of mkdir or copy2 is caught, a
\* warning is printed and None is returned.
create_backup(fsys, file_path, name, copy_fails) ==
    IF ~Exists(fsys, file_path) THEN fsys
    ELSE IF copy_fails \/ IsDir(fsys, file_path) THEN fsys
    ELSE WriteText(fsys, BackupPath(name), fsys[file_path])

----------------------------------------------------------------------------
(* The edit command, from the patch text the LLM returned on               *)

\* --path f
EditPath == BaseDir \o <<Slash>> \o EditedFile

\* the validation that prints its message and goes on
EditValidate_NoExit ==
    /\ pc = "e_generated"
    /\ pc' = "e_valid"
    /\ UNCHANGED <<shell_vars, llm_vars, state_vars, fs, fs0, patch_content, modified, files_data, idx, results, saved, io_fault>>

\* `if not patch_content`, then validate_patch: both exit with status 1
EditValidate ==
    /\ pc = "e_generated"
    /\ pc' = IF patch_content = <<>> \/ ~validate_patch(patch_content).success
             THEN "e_invalid" ELSE "e_valid"
    /\ UNCHANGED <<shell_vars, llm_vars, state_vars, fs, fs0, patch_content, modified, files_data, idx, results, saved, io_fault>>

\* Confirm.ask("Apply this patch?")
EditConfirm ==
    /\ pc = "e_valid"
    /\ \E answer \in BOOLEAN : pc' = IF answer THEN "e_confirmed" ELSE "e_cancelled"
    /\ UNCHANGED <<shell_vars, llm_vars, state_vars, fs, fs0, patch_content, modified, files_data, idx, results, saved, io_fault>>

\* create_backup(str(full_path), backup_dir); its return value is not looked at
EditBackup ==
    /\ pc = "e_confirmed"
    /\ fs' = create_backup(fs, EditPath, EditedFile, io_fault = "backup")
    /\ pc' = "e_backed_up"
    /\ UNCHANGED <<shell_vars, llm_vars, state_vars, fs0, patch_content, modified, files_data, idx, results, saved, io_fault>>

\* files_data = parse_unified_diff(patch_content), then
\* apply_patch_to_file(str(full_path), files_data[0])
EditApply ==
    /\ pc = "e_backed_up"
    /\ LET parsed == parse_unified_diff(patch_content)
           r == apply_patch_to_file(fs, EditPath, parsed[1],
                                    ReadFails(EditPath), WriteFails(EditPath))
       IN  /\ files_data' = parsed
           /\ IF parsed # <<>>
              THEN /\ fs' = r.fs
                   /\ results' = <<r.result>>
                   /\ pc' = IF r.result.success THEN "e_done" ELSE "e_failed"
              ELSE /\ fs' = fs
                   /\ results' = <<>>
                   /\ pc' = "e_failed"
    /\ UNCHANGED <<shell_vars, llm_vars, state_vars, fs0, patch_content, modified, idx, saved, io_fault>>

\* the file to edit: 0..MaxLines lines that all differ, with and without a
\* final newline
EditLines == <<<<"a">>, <<"b">>, <<"c">>, <<"d">>, <<"e">>>>

EditFiles ==
    {TextOf(SubSeq(EditLines, 1, n)) : n \in 0..MaxLines}
    \cup {Join(SubSeq(EditLines, 1, n), <<NL>>) : n \in 1..MaxLines}

\* hunks at any line of the file, removing and adding lines, honest counts
EditHunks ==
    {HonestHunk(os, ls) : os \in 1..(MaxLines + 1),
                          ls \in SeqsOf({Rem(<<"a">>), Add(<<"x">>)}, 1, MaxHunkLines)}

\* a file diff of one hunk, or of two hunks in either order
EditPatches ==
    {FileDiffText(OldF, NewF, <<h>>) : h \in EditHunks}
    \cup {FileDiffText(OldF, NewF, <<h[1], h[2]>>) : h \in EditHunks \X EditHunks}

InitEditAny ==
    /\ patch_content \in EditPatches
    /\ \E t \in EditFiles : fs = FileSystem(Holding(t), Absent)
    /\ io_fault = "none"

\* patches the validation turns down: no text, no file record, a file
\* record without a hunk
InvalidPatches == {<<>>, <<"x", NL>>, FileDiffText(OldF, NewF, <<>>)}

InitEditInvalid ==
    /\ patch_content \in InvalidPatches
    /\ \E t \in EditFiles : fs = FileSystem(Holding(t), Absent)
    /\ io_fault = "none"

\* the environment fails the copy of the backup, or the write of the file
InitEditFault ==
    /\ patch_content \in {FileDiffText(OldF, NewF, <<h>>) : h \in EditHunks}
    /\ \E t \in EditFiles : fs = FileSystem(Holding(t), Absent)
    /\ io_fault \in {"backup", "write"}

(* The scenario of the design: ten lines, a first hunk at line 2 that removes
   2 lines and adds 5, a second hunk at line 8 *)
TenLines == [i \in 1..10 |-> <<Digits[i]>>]

OffsetPatch ==
    FileDiffText(OldF, NewF,
        <<HonestHunk(2, <<Rem(<<"1">>), Rem(<<"2">>), Add(<<"x">>), Add(<<"x">>),
                          Add(<<"x">>), Add(<<"x">>), Add(<<"x">>)>>),
          HonestHunk(8, <<Rem(<<"7">>), Add(<<"y">>)>>)>>)

InitEditOffset ==
    /\ patch_content = OffsetPatch
    /\ fs = FileSystem(Holding(TextOf(TenLines)), Absent)
    /\ io_fault = "none"

InitEdit ==
    /\ ShellIdle /\ LLMIdle /\ StateIdle
    /\ InitEditAny \/ InitEditInvalid \/ InitEditFault \/ InitEditOffset
    /\ fs0 = fs
    /\ modified = <<>>
    /\ pc = "e_generated"
    /\ files_data = <<>>
    /\ idx = 1
    /\ results = <<>>
    /\ saved = "nowhere"

NextEdit == EditValidate \/ EditConfirm \/ EditBackup \/ EditApply

SpecEdit == InitEdit /\ [][NextEdit]_vars

----------------------------------------------------------------------------
(* The parser and the validator on their own: parse_unified_diff and then
   validate_patch applied to a patch text, line by line from the lines a
   patch can hold                                                           *)

MaxPatchLines == 4  \* lines of a patch text after its fixed first lines

\* '@@ -2 +2,0 @@': a hunk header that leaves the old count out
ShortHeader == <<"@", "@", " ", "-", "2", " ", "+", "2", ",", "0", " ", "@", "@">>

\* '@@ x': a line that starts like a hunk header and is none
BrokenHeader == <<"@", "@", " ", "x">>

\* '#': a line that is no part of a hunk
OtherLine == <<"#">>

PatchLineChoices ==
    { OldFileMarker \o OldG, NewFileMarker \o NewG, ShortHeader, BrokenHeader,
      Add(<<"x">>), Rem(<<"a">>), OtherLine }

\* a text starts with nothing, or with the header of f and an open hunk
PatchStarts == { <<>>, <<OldFileMarker \o OldF, HunkHeader(1, 1, 1, 1)>> }

ParserTexts ==
    {Join(start \o ls, <<NL>>) :
        start \in PatchStarts, ls \in SeqsOf(PatchLineChoices, 0, MaxPatchLines)}

\* hunk headers as a diff writes them, '@@ -os[,oc] +ns[,nc] @@': a count is
\* <<>> when the header leaves it out and <<n>> when it is written
WrittenCount(c) == IF c = <<>> THEN <<>> ELSE <<",">> \o IntToStr(c[1])

WrittenHeader(os, oc, ns, nc) ==
    <<"@", "@", " ", "-">> \o IntToStr(os) \o WrittenCount(oc)
    \o <<" ", "+">> \o IntToStr(ns) \o WrittenCount(nc) \o <<" ", "@", "@">>

HeaderStarts == {0, 1, 12}
HeaderCounts == {<<>>, <<0>>, <<1>>, <<12>>}

\* the header of f and one hunk header behind it
HeaderPatch(os, oc, ns, nc) ==
    Join(<<OldFileMarker \o OldF, WrittenHeader(os, oc, ns, nc)>>, <<NL>>)

HeaderTexts ==
    {HeaderPatch(os, oc, ns, nc) :
        os \in HeaderStarts, oc \in HeaderCounts, ns \in HeaderStarts, nc \in HeaderCounts}

\* hunk lines whose text looks like a marker: the Removed lines '---x' and
\* '--- a/g', the Added line '+++ b/g', and a plain Added line
MarkerLineChoices ==
    { Rem(<<"-", "-", "x">>), Rem(<<"-", "-", " ">> \o OldG),
      Add(<<"+", "+", " ">> \o NewG), Add(<<"x">>) }

\* the header of f, a hunk header and such lines behind it
MarkerPatch(ls) ==
    Join(<<OldFileMarker \o OldF, HunkHeader(1, 1, 1, 1)>> \o ls, <<NL>>)

MarkerTexts == {MarkerPatch(ls) : ls \in SeqsOf(MarkerLineChoices, 1, MaxHunkLines)}

\* files = parse_unified_diff(patch_content); the function has no raise and
\* nothing it calls can raise on a str, so it always returns
ParseText ==
    /\ pc = "p_start"
    /\ files_data' = parse_unified_diff(patch_content)
    /\ pc' = "p_parsed"
    /\ UNCHANGED <<shell_vars, llm_vars, state_vars, fs, fs0, patch_content, modified, idx, results, saved, io_fault>>

\* validation = validate_patch(patch_content)
ValidateText ==
    /\ pc = "p_parsed"
    /\ results' = <<validate_patch(patch_content)>>
    /\ pc' = "p_validated"
    /\ UNCHANGED <<shell_vars, llm_vars, state_vars, fs, fs0, patch_content, modified, files_data, idx, saved, io_fault>>

InitParse ==
    /\ ShellIdle /\ LLMIdle /\ StateIdle
    /\ patch_content \in ParserTexts \cup HeaderTexts \cup MarkerTexts
    /\ fs = FileSystem(Absent, Absent)
    /\ fs0 = fs
    /\ modified = <<>>
    /\ pc = "p_start"
    /\ files_data = <<>>
    /\ idx = 1
    /\ results = <<>>
    /\ saved = "nowhere"
    /\ io_fault = "none"

NextParse == ParseText \/ ValidateText

SpecParse == InitParse /\ [][NextParse]_vars

----------------------------------------------------------------------------
(* The run command: is_safe_command, the prompt, execute_command and
   log_command                                                              *)

\* sub in s
Contains(s, sub) ==
    \E i \in 1..(Len(s) - Len(sub) + 1) : SubSeq(s, i, i + Len(sub) - 1) = sub

Quotes == {"'", "\""}

\* the backquote character, which a string of this notation cannot hold
Backtick == "BACKQUOTE"

\* shlex.split(s) for command lines whose quoted parts hold no blank, no
\* backslash and no other quote: a quote left open raises ValueError, else
\* the words between blanks, without their quotes
ShlexSplit(s) ==
    LET IsQuote(c) == c \in Quotes
        NoQuote(c) == c \notin Quotes
        NonEmpty(w) == w # <<>>
        words == SelectSeq(Split(s, " "), NonEmpty)
    IN  [ok |-> Len(SelectSeq(s, IsQuote)) % 2 = 0,
         parts |-> [i \in 1..Len(words) |-> SelectSeq(words[i], NoQuote)]]

\* path.split('/')[-1]
BaseName(w) == LET ps == Split(w, Slash) IN ps[Len(ps)]

ALLOWED_COMMANDS ==
    { <<"l", "s">>,
      <<"c", "a", "t">>,
      <<"g", "r", "e", "p">>,
      <<"f", "i", "n", "d">>,
      <<"e", "c", "h", "o">>,
      <<"p", "w", "d">>,
      <<"c", "d">>,
      <<"h", "e", "a", "d">>,
      <<"t", "a", "i", "l">>,
      <<"g", "i", "t">>,
      <<"n", "p", "m">>,
      <<"p", "i", "p">>,
      <<"p", "y", "t", "h", "o", "n">>,
      <<"p", "y", "t", "h", "o", "n", "3">>,
      <<"n", "o", "d", "e">>,
      <<"m", "a", "k", "e">>,
      <<"c", "m", "a", "k", "e">>,
      <<"w", "h", "i", "c", "h">>,
      <<"w", "h", "o", "a", "m", "i">>,
      <<"i", "d">>,
      <<"d", "a", "t", "e">>,
      <<"c", "u", "r", "l">>,
      <<"w", "g", "e", "t">>,
      <<"t", "r", "e", "e">>,
      <<"l", "e", "s", "s">>,
      <<"m", "o", "r", "e">>,
      <<"w", "c">>,
      <<"s", "o", "r", "t">>,
      <<"u", "n", "i", "q">>,
      <<"a", "w", "k">>,
      <<"s", "e", "d">>,
      <<"d", "i", "f", "f">>,
      <<"p", "a", "t", "c", "h">>,
      <<"t", "a", "r">>,
      <<"g", "z", "i", "p">>,
      <<"g", "u", "n", "z", "i", "p">>,
      <<"z", "i", "p">>,
      <<"u", "n", "z", "i", "p">>,
      <<"t", "o", "u", "c", "h">>,
      <<"m", "k", "d", "i", "r">>,
      <<"r", "m">>,
      <<"c", "p">>,
      <<"m", "v">>,
      <<"l", "n">>,
      <<"c", "h", "m", "o", "d">>,
      <<"c", "h", "o", "w", "n">>,
      <<"f", "i", "l", "e">>,
      <<"s", "t", "a", "t">>,
      <<"d", "u">>,
      <<"d", "f">> }

\* the pipe check of one part behind a '|': "" when it passes, else the reason
PipePartReason(part) ==
    LET p == Strip(part)
        sp == ShlexSplit(p)
    IN  IF p = <<>> THEN ""
        ELSE IF ~sp.ok \/ sp.parts = <<>> THEN "Invalid pipe syntax"
        ELSE IF BaseName(sp.parts[1]) \notin ALLOWED_COMMANDS
             THEN "Piped command not in allowed list"
        ELSE ""

\* the first reason of the parts from k on, "" when all pass
RECURSIVE PipeReason(_, _)
PipeReason(parts, k) ==
    IF k > Len(parts) THEN ""
    ELSE IF PipePartReason(parts[k]) # "" THEN PipePartReason(parts[k])
    ELSE PipeReason(parts, k + 1)

\* the returned pair (safe, reason)
is_safe_command(cmd) ==
    LET sp == ShlexSplit(cmd)
        cmd_parts == sp.parts
        base_command == BaseName(cmd_parts[1])
        Rejected(reason) == [safe |-> FALSE, reason |-> reason]
    IN  IF ~sp.ok THEN Rejected("Invalid command syntax")
        ELSE IF cmd_parts = <<>> THEN Rejected("Empty command")
        ELSE IF base_command \notin ALLOWED_COMMANDS
             THEN Rejected("Command not in allowed list")
        ELSE IF Contains(cmd, <<"$", "(">>) \/ Contains(cmd, <<Backtick>>)
                \/ Contains(cmd, <<"$", "{">>)
             THEN Rejected("Command substitution not allowed")
        ELSE IF \E redir \in {<<" ", ">", " ", "/", "d", "e", "v", "/">>, <<" ", ">", ">", " ", "/", "d", "e", "v", "/">>, <<">", " ", "/", "d", "e", "v", "/">>, <<">", ">", " ", "/", "d", "e", "v", "/">>} :
                    Contains(cmd, redir)
             THEN Rejected("Redirection to device files not allowed")
        ELSE IF Contains(cmd, <<"|">>) /\ PipeReason(Split(cmd, "|"), 2) # ""
             THEN Rejected(PipeReason(Split(cmd, "|"), 2))
        ELSE IF /\ base_command = <<"r", "m">>
                /\ Contains(cmd, <<"-", "r", "f">>)
                /\ (Contains(cmd, <<"*">>) \/ Contains(cmd, <<Slash>>))
             THEN Rejected("Dangerous rm command")
        ELSE IF \E k \in 2..Len(cmd_parts) : StartsWith(cmd_parts[k], <<Slash>>)
             THEN Rejected("Access to critical system path not allowed")
        ELSE [safe |-> TRUE, reason |-> "Command appears safe"]

\* the command lines given to the run command
Commands ==
    { <<"l", "s">>,
      <<>>,
      <<" ", " ">>,
      <<"f", "o", "o">>,
      <<"/", "b", "i", "n", "/", "l", "s", " ", "-", "l">>,
      <<"r", "m", " ", "-", "r", "f", " ", "/">>,
      <<"r", "m", " ", "-", "r", "f", " ", "a", "*">>,
      <<"r", "m", " ", "-", "r", "f", " ", "a">>,
      <<"c", "a", "t", " ", "/", "e", "t", "c", "/", "x">>,
      <<"l", "s", " ", "|", " ", "f", "o", "o">>,
      <<"l", "s", " ", "|", " ", "c", "a", "t">>,
      <<"l", "s", " ", "|">>,
      <<"e", "c", "h", "o", " ", "$", "(", "x", ")">>,
      <<"e", "c", "h", "o", " ", "'", "a">>,
      <<"l", "s", " ", "'", "a", "|", "b", "'">>,
      <<"e", "c", "h", "o", " ", "a", " ", ">", " ", "/", "d", "e", "v", "/", "x">>,
      <<"e", "c", "h", "o", " ", "a">>,
      <<"e", "c", "h", "o", " ", Backtick, "x", Backtick>> }

\* the check that asks and does not look at the answer
RunCheck_AnswerIgnored ==
    /\ pc = "r_start"
    /\ IF is_safe_command(command).safe
       THEN asked' = asked
       ELSE \E answer \in BOOLEAN : asked' = <<answer>>
    /\ pc' = "r_execute"
    /\ UNCHANGED <<patch_vars, llm_vars, state_vars,
                   command, executed, shell_result, command_log>>

\* is_safe_command(command), and Confirm.ask for a command it rejects
RunCheck ==
    /\ pc = "r_start"
    /\ IF is_safe_command(command).safe
       THEN pc' = "r_execute" /\ asked' = asked
       ELSE \E answer \in BOOLEAN :
               /\ asked' = <<answer>>
               /\ pc' = IF answer THEN "r_execute" ELSE "r_cancelled"
    /\ UNCHANGED <<patch_vars, llm_vars, state_vars,
                   command, executed, shell_result, command_log>>

\* the exit codes of a command that was started
ExitCodes == {0, 1}

\* result = execute_command(command, workdir): -1 when the command line does
\* not split, when the program cannot be started or when it times out
RunExecute ==
    /\ pc = "r_execute"
    /\ executed' = Append(executed, command)
    /\ \E rc \in (IF ShlexSplit(command).ok THEN ExitCodes ELSE {}) \cup {0 - 1} :
          shell_result' = <<[command |-> command, returncode |-> rc]>>
    /\ pc' = "r_log"
    /\ UNCHANGED <<patch_vars, llm_vars, state_vars, command, asked, command_log>>

\* log_command(result, log_dir), which keeps an error of the write to
\* itself, and the exit with the command's return code
RunLog ==
    /\ pc = "r_log"
    /\ \E written \in BOOLEAN :
          command_log' =
              IF written
              THEN Append(command_log, [command |-> shell_result[1].command,
                                        exit_code |-> shell_result[1].returncode])
              ELSE command_log
    /\ pc' = IF shell_result[1].returncode = 0 THEN "r_done" ELSE "r_exit"
    /\ UNCHANGED <<patch_vars, llm_vars, state_vars, command, executed, shell_result, asked>>

\* the patch engine at rest
PatchIdle ==
    /\ fs = FileSystem(Absent, Absent)
    /\ fs0 = fs
    /\ patch_content = <<>>
    /\ modified = <<>>
    /\ files_data = <<>>
    /\ idx = 1
    /\ results = <<>>
    /\ saved = "nowhere"
    /\ io_fault = "none"

InitRun ==
    /\ PatchIdle /\ LLMIdle /\ StateIdle
    /\ command \in Commands
    /\ executed = <<>>
    /\ shell_result = <<>>
    /\ command_log = <<>>
    /\ asked = <<>>
    /\ pc = "r_start"

NextRun == RunCheck \/ RunExecute \/ RunLog

SpecRun == InitRun /\ [][NextRun]_vars

----------------------------------------------------------------------------

(* LLMClient.chat: the retry loop around the two API calls                  *)

MaxRetries == 3   \* the largest max_retries chat is called with

\* response.choices[0].message.content of an answer
Contents == {<<>>, <<"h", "i">>, <<"o", "k">>, <<"-", "-", "-", " ", "a">>}

\* what one pass of the loop body can give: the content from
\* responses.create; the content from chat.completions.create after
\* responses.create raised AttributeError; an exception of the first call;
\* an exception of the second call
AttemptOutcomes ==
    {[call |-> c, raised |-> FALSE, content |-> t] :
        c \in {"responses", "completions"}, t \in Contents}
    \cup {[call |-> c, raised |-> TRUE, content |-> <<>>] :
            c \in {"responses", "completions"}}

\* range(max_retries + 1)
InRange_Inclusive(a, m) == a <= m

\* attempt in range(max_retries)
InRange(a, m) == a >= 0 /\ a < m

\* one pass of the loop body: the return of the content, or the except
\* branch, which sleeps and goes on or returns None behind the last attempt
ChatAttempt ==
    /\ pc = "c_loop"
    /\ InRange(attempt, max_retries)
    /\ \E o \in AttemptOutcomes :
          /\ outcomes' = Append(outcomes, o)
          /\ IF ~o.raised
             THEN /\ chat_return' = <<o.content>>
                  /\ pc' = "c_returned"
                  /\ attempt' = attempt
             ELSE IF attempt < max_retries - 1
             THEN /\ chat_return' = chat_return
                  /\ pc' = "c_loop"
                  /\ attempt' = attempt + 1
             ELSE /\ chat_return' = <<>>
                  /\ pc' = "c_returned"
                  /\ attempt' = attempt
    /\ UNCHANGED <<patch_vars, shell_vars, state_vars, max_retries>>

\* the end of the function behind a loop that has nothing left to do: None
ChatLoopEnds ==
    /\ pc = "c_loop"
    /\ ~InRange(attempt, max_retries)
    /\ chat_return' = <<>>
    /\ pc' = "c_returned"
    /\ UNCHANGED <<patch_vars, shell_vars, state_vars, max_retries, attempt, outcomes>>

InitChat ==
    /\ PatchIdle /\ ShellIdle /\ StateIdle
    /\ max_retries \in 0..MaxRetries
    /\ attempt = 0
    /\ outcomes = <<>>
    /\ chat_return = <<>>
    /\ pc = "c_loop"

NextChat == ChatAttempt \/ ChatLoopEnds

\* a call that was started goes on: the API calls and the sleep return
SpecChat == InitChat /\ [][NextChat]_vars /\ WF_vars(NextChat)

----------------------------------------------------------------------------

(* The agent state: TodoItem, AgentState and the StateManager that keeps it
   in a JSON file.  A datetime is [dt |-> instant], the string its
   isoformat() gives is [iso |-> instant]; None is <<>> and a present
   optional value v is <<v>>.                                               *)

MaxTodos == 2   \* the most todos a state gets

\* the instants datetime.now() can give; the now() calls of one method call
\* give one instant, and the clock does not run backwards
Instants == {1, 2}

\* the instants at or after the state's last update
InstantsFrom(state) == {t \in Instants : t >= state.last_updated.dt}

Now(t) == [dt |-> t]

\* isinstance(v, datetime)
IsDatetime(v) == DOMAIN v = {"dt"}

\* d.isoformat() and datetime.fromisoformat(s)
isoformat(d) == [iso |-> d.dt]
fromisoformat(s) == [dt |-> s.iso]

\* TodoItem(id=..., title=..., description=..., created=...) with the
\* defaults of the other fields
TodoItem(id, title, description, created) ==
    [id |-> id, title |-> title, description |-> description,
     created |-> created, completed |-> <<>>, status |-> "pending"]

mark_completed(todo, t) ==
    [todo EXCEPT !.status = "completed", !.completed = <<Now(t)>>]

mark_in_progress(todo) == [todo EXCEPT !.status = "in_progress"]

cancel(todo) == [todo EXCEPT !.status = "cancelled"]

\* AgentState(created=datetime.now(), last_updated=datetime.now())
NewAgentState(t) ==
    [version |-> "1.0", created |-> Now(t), last_updated |-> Now(t),
     todos |-> <<>>, next_todo_id |-> 1, metadata |-> <<>>]

\* add_todo that leaves next_todo_id as it is
add_todo_NoIncrement(state, title, description, t) ==
    [state EXCEPT
        !.todos = Append(@, TodoItem(state.next_todo_id, title, description, Now(t))),
        !.last_updated = Now(t)]

\* the state after add_todo(title, description)
add_todo(state, title, description, t) ==
    [state EXCEPT
        !.todos = Append(@, TodoItem(state.next_todo_id, title, description, Now(t))),
        !.next_todo_id = @ + 1,
        !.last_updated = Now(t)]

\* get_todo: the position of the first todo with the id, 0 for None
get_todo(state, todo_id) ==
    LET hits == {k \in 1..Len(state.todos) : state.todos[k].id = todo_id}
    IN  IF hits = {} THEN 0 ELSE CHOOSE k \in hits : \A q \in hits : k <= q

\* mark_todo_done: the returned bool and the state behind the call
mark_todo_done(state, todo_id, t) ==
    LET k == get_todo(state, todo_id)
    IN  IF k # 0
        THEN [value |-> TRUE,
              state |-> [state EXCEPT !.todos[k] = mark_completed(@, t),
                                      !.last_updated = Now(t)]]
        ELSE [value |-> FALSE, state |-> state]

\* f"Step {i}: {step}" if len(plan) > 1 else step
StepTitle(plan, i) ==
    IF Len(plan) > 1
    THEN <<"S", "t", "e", "p", " ">> \o IntToStr(i) \o <<":", " ">> \o plan[i]
    ELSE plan[i]

\* the state after the steps i.. of add_plan_todos(plan) were added
RECURSIVE AddPlanFrom(_, _, _, _)
AddPlanFrom(state, plan, i, t) ==
    IF i > Len(plan) THEN state
    ELSE AddPlanFrom(add_todo(state, StepTitle(plan, i), <<>>, t), plan, i + 1, t)

add_plan_todos(state, plan, t) == AddPlanFrom(state, plan, 1, t)

\* save_state: model_dump() of a todo with its datetimes as ISO strings
DumpTodo(todo) ==
    [todo EXCEPT
        !.created = IF IsDatetime(@) THEN isoformat(@) ELSE @,
        !.completed = IF @ # <<>> /\ IsDatetime(@[1]) THEN <<isoformat(@[1])>> ELSE @]

\* the dict save_state gives to json.dump
DumpState(state) ==
    [state EXCEPT
        !.created = isoformat(@),
        !.last_updated = isoformat(@),
        !.todos = [k \in 1..Len(state.todos) |-> DumpTodo(state.todos[k])]]

\* a file that json.load or AgentState(**data) turns down
Corrupt == [corrupt |-> TRUE]

\* load_state: a todo of the dict with its ISO strings as datetimes
LoadTodo(todo_data) ==
    [todo_data EXCEPT
        !.created = fromisoformat(@),
        !.completed = IF @ # <<>> THEN <<fromisoformat(@[1])>> ELSE @]

\* AgentState built from the todos of the dict alone
LoadData_TodosOnly(data) ==
    [version |-> "1.0",
     created |-> fromisoformat(data.created),
     last_updated |-> fromisoformat(data.last_updated),
     todos |-> [k \in 1..Len(data.todos) |-> LoadTodo(data.todos[k])],
     next_todo_id |-> 1,
     metadata |-> <<>>]

\* AgentState(**data) behind the conversions of load_state
LoadData(data) ==
    [data EXCEPT
        !.created = fromisoformat(@),
        !.last_updated = fromisoformat(@),
        !.todos = [k \in 1..Len(data.todos) |-> LoadTodo(data.todos[k])]]

\* load_state of a manager whose _state is cached and whose file is file:
\* the state it returns and whether it opened the file
load_state(cached, file, t) ==
    IF cached # <<>> THEN [state |-> cached[1], opened |-> FALSE]
    ELSE IF file = <<>> THEN [state |-> NewAgentState(t), opened |-> FALSE]
    ELSE IF file[1] = Corrupt THEN [state |-> NewAgentState(t), opened |-> TRUE]
    ELSE [state |-> LoadData(file[1]), opened |-> TRUE]

\* what a method call returned
Returned(op, arg, value) == [op |-> op, arg |-> arg, value |-> value]

\* the titles add_todo is called with and the plans add_plan_todos is
\* called with
Titles == {<<"t">>}
Plans == {<<<<"p">>>>, <<<<"p">>, <<"q">>>>}

\* the first manager: state_manager.load_state() (get_state is the same call)
LoadState ==
    /\ pc \in {"s_new", "s_open"}
    /\ \E t \in Instants :
          LET r == load_state(agent_state, state_file, t) IN
          /\ agent_state' = <<r.state>>
          /\ last_return' = Returned("load_state", 0, TRUE)
    /\ pc' = "s_open"
    /\ UNCHANGED <<patch_vars, shell_vars, llm_vars, state_file, fresh_state, file_reads>>

AddTodo ==
    /\ pc = "s_open"
    /\ Len(agent_state[1].todos) < MaxTodos
    /\ \E title \in Titles, t \in InstantsFrom(agent_state[1]) :
          agent_state' = <<add_todo(agent_state[1], title, <<>>, t)>>
    /\ last_return' = Returned("add_todo", 0, TRUE)
    /\ UNCHANGED <<pc, patch_vars, shell_vars, llm_vars, state_file, fresh_state, file_reads>>

AddPlanTodos ==
    /\ pc = "s_open"
    /\ \E plan \in Plans, t \in InstantsFrom(agent_state[1]) :
          /\ Len(agent_state[1].todos) + Len(plan) <= MaxTodos
          /\ agent_state' = <<add_plan_todos(agent_state[1], plan, t)>>
    /\ last_return' = Returned("add_plan_todos", 0, TRUE)
    /\ UNCHANGED <<pc, patch_vars, shell_vars, llm_vars, state_file, fresh_state, file_reads>>

MarkTodoDone ==
    /\ pc = "s_open"
    /\ \E todo_id \in 0..(MaxTodos + 1), t \in InstantsFrom(agent_state[1]) :
          LET r == mark_todo_done(agent_state[1], todo_id, t) IN
          /\ agent_state' = <<r.state>>
          /\ last_return' = Returned("mark_todo_done", todo_id, r.value)
    /\ UNCHANGED <<pc, patch_vars, shell_vars, llm_vars, state_file, fresh_state, file_reads>>

\* todo.mark_completed(), todo.mark_in_progress() or todo.cancel() on a todo
\* of the state
TodoMethod ==
    /\ pc = "s_open"
    /\ \E k \in 1..Len(agent_state[1].todos), t \in InstantsFrom(agent_state[1]) :
          \E new \in {mark_completed(agent_state[1].todos[k], t),
                      mark_in_progress(agent_state[1].todos[k]),
                      cancel(agent_state[1].todos[k])} :
              agent_state' = <<[agent_state[1] EXCEPT !.todos[k] = new]>>
    /\ last_return' = Returned("todo_method", 0, TRUE)
    /\ UNCHANGED <<pc, patch_vars, shell_vars, llm_vars, state_file, fresh_state, file_reads>>

\* save_state: True with nothing written when there is no state; else the
\* dict is written, or the directory or the file cannot be written and the
\* call returns False with the file as it was or cut short
SaveState ==
    /\ pc \in {"s_new", "s_open", "s_saved"}
    /\ IF agent_state = <<>>
       THEN /\ state_file' = state_file
            /\ last_return' = Returned("save_state", 0, TRUE)
            /\ pc' = pc
       ELSE \/ /\ state_file' = <<DumpState(agent_state[1])>>
               /\ last_return' = Returned("save_state", 0, TRUE)
               /\ pc' = "s_saved"
            \/ /\ pc # "s_saved"
               /\ state_file' \in {state_file, <<Corrupt>>}
               /\ last_return' = Returned("save_state", 0, FALSE)
               /\ pc' = pc
    /\ UNCHANGED <<patch_vars, shell_vars, llm_vars, agent_state, fresh_state, file_reads>>

\* a second StateManager, made on the same file after the first one saved:
\* load_state() or get_state()
FreshLoadState ==
    /\ pc = "s_saved"
    /\ \E t \in Instants :
          LET r == load_state(fresh_state, state_file, t) IN
          /\ fresh_state' = <<r.state>>
          /\ file_reads' = file_reads + (IF r.opened THEN 1 ELSE 0)
    /\ last_return' = Returned("fresh_load_state", 0, TRUE)
    /\ UNCHANGED <<pc, patch_vars, shell_vars, llm_vars, agent_state, state_file>>

InitState ==
    /\ PatchIdle /\ ShellIdle /\ LLMIdle
    /\ agent_state = <<>>
    /\ state_file \in {<<>>, <<Corrupt>>}
    /\ fresh_state = <<>>
    /\ file_reads = 0
    /\ last_return = Returned("none", 0, TRUE)
    /\ pc = "s_new"

NextState ==
    \/ LoadState \/ AddTodo \/ AddPlanTodos \/ MarkTodoDone \/ TodoMethod
    \/ SaveState \/ FreshLoadState

SpecState == InitState /\ [][NextState]_vars

----------------------------------------------------------------------------

(* What the design says of a hunk and a file, for the properties below      *)

\* the lines of a file, none when it is absent
LinesOf(fsys, p) == IF p \in DOMAIN fsys THEN SplitLines(fsys[p]) ELSE <<>>

\* the text of a file, with absent read as the empty text
TextAt(fsys, p) == IF p \in DOMAIN fsys THEN fsys[p] ELSE <<>>

SameFile(fsys1, fsys2, p) ==
    /\ p \in DOMAIN fsys1 <=> p \in DOMAIN fsys2
    /\ p \in DOMAIN fsys1 => fsys1[p] = fsys2[p]

IsPre(l) == l[1] \in {" ", "-"}
IsPost(l) == l[1] \in {" ", "+"}
IsAdded(l) == l[1] = "+"

Untagged(ls) == [i \in 1..Len(ls) |-> Tail(ls[i])]

\* the Context+Removed lines and the Context+Added lines of a hunk, in order
PreImage(hunk) == Untagged(SelectSeq(hunk.lines, IsPre))
PostImage(hunk) == Untagged(SelectSeq(hunk.lines, IsPost))

\* one of the old_count lines at the hunk's position is missing or differs
\* from the hunk's pre-image
Conflicts(lines, hunk) ==
    \E k \in 1..hunk.old_count :
        LET pos == hunk.old_start - 1 + k IN
        \/ pos < 1 \/ pos > Len(lines)
        \/ k > Len(PreImage(hunk))
        \/ lines[pos] # PreImage(hunk)[k]

\* the hunk names a range of the file and its pre-image is that range
Matches(lines, hunk) ==
    /\ hunk.old_start >= 1
    /\ hunk.old_start - 1 + hunk.old_count <= Len(lines)
    /\ SubSeq(lines, hunk.old_start, hunk.old_start - 1 + hunk.old_count) = PreImage(hunk)

\* the lines with the hunk's range replaced by its post-image
Patched(lines, hunk) ==
    SubSeq(lines, 1, hunk.old_start - 1)
    \o PostImage(hunk)
    \o SubSeq(lines, hunk.old_start + hunk.old_count, Len(lines))

\* the loop of apply_patch_file has dealt with the k-th file record
Processed(k) == files_data # <<>> /\ Len(results) >= k

\* the first file record has one hunk and a target in the working directory,
\* and it is the only record dealt with so far
FirstFileDone ==
    /\ Processed(1)
    /\ Len(results) = 1
    /\ Len(files_data[1].hunks) = 1
    /\ InsideBase(FullPath(files_data[1]))

----------------------------------------------------------------------------
(* C1: applying never succeeds against content that does not match: when a
   line of the file at the hunk's position differs from the hunk's
   Context+Removed lines, the result is a failure with reason
   'context mismatch'. *)
C1_MismatchIsConflict ==
    (FirstFileDone
       /\ Conflicts(LinesOf(fs0, FullPath(files_data[1])), files_data[1].hunks[1]))
    => (~results[1].success /\ results[1].message = "context mismatch")

(* C2: when a hunk of a file does not match the file's content, the file is
   left exactly as it was before the call. *)
C2_MismatchLeavesFile ==
    (FirstFileDone
       /\ Conflicts(LinesOf(fs0, FullPath(files_data[1])), files_data[1].hunks[1]))
    => SameFile(fs, fs0, FullPath(files_data[1]))

(* C3: for a hunk whose pre-image matches the content, the file is written
   with exactly the old_count lines from 0-based index old_start-1 replaced
   by the hunk's Context and Added lines in hunk order, every other line
   unchanged; the text written is the lines joined by newlines and ended by
   a newline. *)
C3_MatchingHunkReplacesRange ==
    (FirstFileDone
       /\ io_fault = "none"
       /\ Matches(LinesOf(fs0, FullPath(files_data[1])), files_data[1].hunks[1]))
    => /\ results[1].success
       /\ FullPath(files_data[1]) \in DOMAIN fs
       /\ fs[FullPath(files_data[1])] =
            Join(Patched(LinesOf(fs0, FullPath(files_data[1])), files_data[1].hunks[1]),
                 <<NL>>) \o <<NL>>

\* the scenario "a\nb\nc\n" with [Context b, Added x] at line 2 has run
C3_Witness ==
    /\ pc = "done"
    /\ patch_content = ExamplePatch
    /\ fs0 = FileSystem(Holding(ExampleText), Absent)
    /\ Processed(1)
    /\ fs[PathF] = <<"a", NL, "b", NL, "x", NL, "c", NL>>

----------------------------------------------------------------------------
\* some hunk's header counts disagree with the tally of its lines
HasMiscount(fd) ==
    \E k \in 1..Len(fd) : \E h \in 1..Len(fd[k].hunks) :
        \/ fd[k].hunks[h].old_count # Len(PreImage(fd[k].hunks[h]))
        \/ fd[k].hunks[h].new_count # Len(PostImage(fd[k].hunks[h]))

\* some line starts with '@@' and is no hunk header
HasBadHeader(text) ==
    LET lines == Split(text, NL) IN
    \E i \in 1..Len(lines) :
        StartsWith(lines[i], HunkMarker) /\ ~MatchHunkHeader(lines[i]).ok

HasEmptyFileDiff(fd) == \E k \in 1..Len(fd) : fd[k].hunks = <<>>

Malformed(text) ==
    \/ HasEmptyFileDiff(parse_unified_diff(text))
    \/ HasMiscount(parse_unified_diff(text))
    \/ HasBadHeader(text)

\* validate_patch accepted the patch text
Accepted == pc \in {"saved", "applying", "report", "done"}

(* C5: parse followed by validate rejects every patch with a hunk whose
   declared old_count differs from its number of Context+Removed lines or
   whose declared new_count differs from its number of Context+Added lines. *)
C5_MiscountRejected ==
    HasMiscount(parse_unified_diff(patch_content)) => ~Accepted

(* C6: when any file diff of the set is malformed (no hunk, inconsistent
   counts, bad header) the whole operation aborts and no file is written. *)
C6_MalformedTouchesNothing ==
    Malformed(patch_content) => fs = fs0

(* C7: two files, the first file's hunk conflicts and the second file's hunk
   applies cleanly: one failed and one succeeded file, the first file
   unchanged, the second file holding the patched content. *)
C7_ConflictThenClean ==
    (/\ pc = "done"
     /\ Processed(2)
     /\ Len(files_data) = 2
     /\ io_fault = "none"
     /\ Len(files_data[1].hunks) = 1 /\ Len(files_data[2].hunks) = 1
     /\ InsideBase(FullPath(files_data[1])) /\ InsideBase(FullPath(files_data[2]))
     /\ FullPath(files_data[1]) # FullPath(files_data[2])
     /\ Conflicts(LinesOf(fs0, FullPath(files_data[1])), files_data[1].hunks[1])
     /\ Matches(LinesOf(fs0, FullPath(files_data[2])), files_data[2].hunks[1]))
    => /\ failed_count = 1
       /\ success_count = 1
       /\ SameFile(fs, fs0, FullPath(files_data[1]))
       /\ TextAt(fs, FullPath(files_data[2])) =
            Join(Patched(LinesOf(fs0, FullPath(files_data[2])), files_data[2].hunks[1]),
                 <<NL>>) \o <<NL>>

(* C8: the files of a patch set are processed one at a time in the order of
   the patch, each adds exactly one result at its own position, a failed
   file changes nothing on disk and does not end the loop, and the files
   other than the one being processed keep what was written to them. *)
C8_OneResultEach ==
    /\ pc \in {"applying", "report"} => Len(results) = idx - 1
    /\ (pc \in {"report", "done"} /\ files_data # <<>>)
          => Len(results) = Len(files_data)

C8_Step ==
    idx' # idx =>
        /\ idx' = idx + 1
        /\ files_data' = files_data
        /\ Len(results') = idx
        /\ SubSeq(results', 1, idx - 1) = results
        /\ \A q \in (DOMAIN fs \cup DOMAIN fs') \ {FullPath(files_data[idx])} :
              SameFile(fs', fs, q)
        /\ ~results'[idx].success => fs' = fs
        /\ ~InsideBase(FullPath(files_data[idx])) => ~results'[idx].success
        /\ results'[idx].success => FullPath(files_data[idx]) \in DOMAIN fs'

C8_SequentialPartialFailure == []C8_OneResultEach /\ [][C8_Step]_vars

\* a set of two files whose first file failed and whose second was written
C8_Witness ==
    /\ pc = "done"
    /\ Len(files_data) = 2
    /\ Len(results) = 2
    /\ ~results[1].success
    /\ results[2].success
    /\ fs # fs0

(* C9: a file diff with /dev/null as old path whose target does not exist
   and whose single hunk has old_count = 0 (all its lines Added) creates the
   target with exactly the Added lines, each ended by a newline. *)
C9_CreatesFile ==
    (/\ FirstFileDone
     /\ io_fault = "none"
     /\ files_data[1].original_file = DevNull
     /\ FullPath(files_data[1]) \notin DOMAIN fs0
     /\ files_data[1].hunks[1].old_count = 0
     /\ PreImage(files_data[1].hunks[1]) = <<>>)
    => /\ results[1].success
       /\ FullPath(files_data[1]) \in DOMAIN fs
       /\ fs[FullPath(files_data[1])] =
            Join(Untagged(SelectSeq(files_data[1].hunks[1].lines, IsAdded)), <<NL>>)
            \o <<NL>>

\* f did not exist and was created from a hunk '@@ -0,0 +0,2 @@' of two lines
C9_Witness ==
    /\ pc = "done"
    /\ Processed(1)
    /\ files_data[1].original_file = DevNull
    /\ PathF \notin DOMAIN fs0
    /\ files_data[1].hunks[1].old_start = 0
    /\ files_data[1].hunks[1].old_count = 0
    /\ fs = FileSystem(Holding(<<"x", NL, "x", NL>>), Absent)

\* the file a record's old path names
OldTargetOf(file_data) ==
    Resolve(JoinPath(BaseDir,
        IF StartsWith(file_data.original_file, <<"a", Slash>>)
        THEN DropFirst(file_data.original_file, 2) ELSE file_data.original_file))

(* C10: a file diff whose new path is /dev/null deletes the file its old
   path names (or leaves it empty) and its result is a success. *)
C10_DevNullTargetDeletes ==
    \A k \in 1..Len(results) :
        (/\ files_data # <<>>
         /\ io_fault = "none"
         /\ files_data[k].modified_file = DevNull
         /\ Len(files_data[k].hunks) = 1
         /\ files_data[k].hunks[1].old_start = 1
         /\ files_data[k].hunks[1].old_count = Len(LinesOf(fs0, OldTargetOf(files_data[k])))
         /\ PostImage(files_data[k].hunks[1]) = <<>>
         /\ Matches(LinesOf(fs0, OldTargetOf(files_data[k])), files_data[k].hunks[1]))
        => /\ results[k].success
           /\ TextAt(fs, OldTargetOf(files_data[k])) = <<>>

----------------------------------------------------------------------------
\* some hunk has a start that is no line number although its count is not 0
HasNonPositiveStart(fd) ==
    \E k \in 1..Len(fd) : \E h \in 1..Len(fd[k].hunks) :
        \/ fd[k].hunks[h].old_start <= 0 /\ fd[k].hunks[h].old_count # 0
        \/ fd[k].hunks[h].new_start <= 0 /\ fd[k].hunks[h].new_count # 0

(* C14: validation rejects every patch with a hunk whose old_start is not
   positive while its old_count is not zero, or whose new_start is not
   positive while its new_count is not zero, so that no such hunk is ever
   applied. *)
C14_NonPositiveStartRejected ==
    HasNonPositiveStart(parse_unified_diff(patch_content)) => ~Accepted

----------------------------------------------------------------------------
(* Several hunks on one file, as the design applies them *)

\* the lines with count lines from 0-based index at replaced by new
PlaceAt(lines, at, count, new) ==
    LET lo == Min(Max(at, 0), Len(lines))
        hi == Min(lo + count, Len(lines))
    IN  SubSeq(lines, 1, lo) \o new \o SubSeq(lines, hi + 1, Len(lines))

\* the hunks applied in list order, hunk k at old_start - 1 + offset, where
\* offset is the sum of new_count - old_count of the hunks before it
RECURSIVE ForwardPatched(_, _, _)
ForwardPatched(lines, hunks, offset) ==
    IF hunks = <<>> THEN lines
    ELSE ForwardPatched(
            PlaceAt(lines, Head(hunks).old_start - 1 + offset, Head(hunks).old_count,
                    PostImage(Head(hunks))),
            Tail(hunks),
            offset + Head(hunks).new_count - Head(hunks).old_count)

\* every hunk names a range of the file, and each range ends before the next
\* one starts
AscendingDisjoint(lines, hunks) ==
    \A k \in 1..Len(hunks) :
        /\ hunks[k].old_start >= 1
        /\ hunks[k].old_start - 1 + hunks[k].old_count <= Len(lines)
        /\ k < Len(hunks) =>
              hunks[k].old_start + hunks[k].old_count <= hunks[k + 1].old_start

\* the header counts of every hunk are the tallies of its lines
HonestCounts(hunks) ==
    \A k \in 1..Len(hunks) :
        /\ hunks[k].old_count = Len(PreImage(hunks[k]))
        /\ hunks[k].new_count = Len(PostImage(hunks[k]))

\* the edit command has written the file from the one record of the patch
EditApplied == pc = "e_done" /\ Len(files_data) = 1

(* C15: for hunks in ascending, non-overlapping old_start order the file
   written is the one got by applying the hunks in list order with a running
   offset: hunk k replaces old_count lines from 0-based index
   old_start - 1 + offset, offset being the sum of new_count - old_count of
   the hunks before it. *)
C15_RunningOffset ==
    (/\ EditApplied
     /\ HonestCounts(files_data[1].hunks)
     /\ AscendingDisjoint(LinesOf(fs0, EditPath), files_data[1].hunks))
    => fs[EditPath] =
         Join(ForwardPatched(LinesOf(fs0, EditPath), files_data[1].hunks, 0), <<NL>>)
         \o <<NL>>

\* ten lines, a hunk at line 2 (2 lines out, 5 in) and a hunk at line 8: the
\* second hunk's replacement is at 0-based index 10 of the 13 lines written
C15_Witness ==
    /\ EditApplied
    /\ patch_content = OffsetPatch
    /\ AscendingDisjoint(LinesOf(fs0, EditPath), files_data[1].hunks)
    /\ Len(LinesOf(fs, EditPath)) = 13
    /\ LinesOf(fs, EditPath)[11] = <<"y">>
    /\ LinesOf(fs, EditPath)[12] = <<"8">>

\* the hunks applied in list order, each at its own old_start
RECURSIVE InOrderPatched(_, _)
InOrderPatched(lines, hunks) ==
    IF hunks = <<>> THEN lines
    ELSE InOrderPatched(
            PlaceAt(lines, Head(hunks).old_start - 1, Head(hunks).old_count,
                    PostImage(Head(hunks))),
            Tail(hunks))

\* the hunks applied from the last of the list to the first, each at its own
\* old_start
RECURSIVE BackwardPatched(_, _)
BackwardPatched(lines, hunks) ==
    IF hunks = <<>> THEN lines
    ELSE BackwardPatched(
            PlaceAt(lines, hunks[Len(hunks)].old_start - 1, hunks[Len(hunks)].old_count,
                    PostImage(hunks[Len(hunks)])),
            SubSeq(hunks, 1, Len(hunks) - 1))

PositiveStarts(hunks) == \A k \in 1..Len(hunks) : hunks[k].old_start >= 1

\* the text apply_patch_to_file writes for the lines
AsWritten(lines) == Join(lines, <<NL>>) \o <<NL>>

(* C16, as claimed: the hunks of a file are processed in the order in which
   they appear in the diff, whatever their old_start order: the file written
   is the one that processing the list from its first hunk to its last
   gives, with the running offset of the design or without it. *)
C16_ListOrder ==
    (EditApplied /\ PositiveStarts(files_data[1].hunks))
    => \/ fs[EditPath] =
            AsWritten(ForwardPatched(LinesOf(fs0, EditPath), files_data[1].hunks, 0))
       \/ fs[EditPath] =
            AsWritten(InOrderPatched(LinesOf(fs0, EditPath), files_data[1].hunks))

(* C16, amended: the hunks of a file are processed in the reverse of the
   order in which they appear in the diff, the last hunk first, each at its
   own old_start, and they are not sorted, whatever their old_start order. *)
C16_ReverseListOrder ==
    (EditApplied /\ PositiveStarts(files_data[1].hunks))
    => fs[EditPath] =
         AsWritten(BackwardPatched(LinesOf(fs0, EditPath), files_data[1].hunks))

\* two hunks in descending old_start order were applied, and the file is not
\* the one the same hunks in ascending order give
C16_Witness ==
    /\ EditApplied
    /\ Len(files_data[1].hunks) = 2
    /\ files_data[1].hunks[1].old_start > files_data[1].hunks[2].old_start
    /\ fs[EditPath] =
         AsWritten(BackwardPatched(LinesOf(fs0, EditPath), files_data[1].hunks))
    /\ fs[EditPath] #
         AsWritten(BackwardPatched(LinesOf(fs0, EditPath),
                                   Reversed(files_data[1].hunks)))

\* the text is not empty and its last line has no line terminator
NoFinalNewline(text) == text # <<>> /\ text[Len(text)] \notin {NL, CR}

\* no hunk reaches the last line of the file or adds lines behind it
LastLineUntouched(lines, hunks) ==
    \A k \in 1..Len(hunks) :
        hunks[k].old_start >= 1 /\ hunks[k].old_start + hunks[k].old_count <= Len(lines)

(* C17: the patched text keeps the line-ending convention of the input: a
   file whose last line has no final newline and is not touched by any hunk
   has no final newline after the patch either. *)
C17_KeepsFinalLineEnding ==
    (/\ EditApplied
     /\ NoFinalNewline(fs0[EditPath])
     /\ LastLineUntouched(LinesOf(fs0, EditPath), files_data[1].hunks))
    => NoFinalNewline(fs[EditPath])

----------------------------------------------------------------------------
(* C18: whenever the edit command has written patched content over an
   existing file, a backup copy holding the file's original content was
   made before that write: the write never happens without the backup, and
   the backup never holds what the write left. *)
C18_BackupBeforeWrite ==
    (pc = "e_done" /\ EditPath \in DOMAIN fs0)
    => /\ BackupPath(EditedFile) \in DOMAIN fs
       /\ fs[BackupPath(EditedFile)] = fs0[EditPath]

----------------------------------------------------------------------------
\* parse_unified_diff has returned
ParseReturned == pc \in {"p_parsed", "p_validated"}

(* C11: parse on the empty text returns an empty sequence of file records
   and raises no error. *)
C11_EmptyInputParsesToNothing ==
    (pc # "p_start" /\ patch_content = <<>>) => (ParseReturned /\ files_data = <<>>)

\* the empty text has been parsed
C11_Witness == ParseReturned /\ patch_content = <<>> /\ files_data = <<>>

----------------------------------------------------------------------------
(* The patch text as the design reads it: file headers, and behind each the
   hunk headers up to the next file header *)

PatchLines == Split(patch_content, NL)

\* the positions among a..b of the lines that satisfy Test, in order
Positions(a, b, Test(_)) ==
    SelectSeq([i \in 1..(IF b >= a THEN b - a + 1 ELSE 0) |-> a + i - 1], Test)

\* the lines that start with the old-file marker
FileHeaderPositions(lines) ==
    LET IsFileHeader(i) == StartsWith(lines[i], OldFileMarker)
    IN  Positions(1, Len(lines), IsFileHeader)

\* the last line before the file header after the k-th one; fh is
\* FileHeaderPositions(lines)
SectionEnd(lines, fh, k) == IF k < Len(fh) THEN fh[k + 1] - 1 ELSE Len(lines)

\* the hunk headers among the lines a..b
HunkHeaderPositions(lines, a, b) ==
    LET IsHeader(i) == MatchHunkHeader(lines[i]).ok
    IN  Positions(a, b, IsHeader)

\* the hunk headers behind the k-th file header
HunkHeadersOf(lines, fh, k) == HunkHeaderPositions(lines, fh[k] + 1, SectionEnd(lines, fh, k))

(* C12: a file header followed by no hunk is accepted by the parser, which
   yields a file record with an empty hunk list for it, and the patch is
   rejected by validation, wherever in the patch that file is. *)
C12_NoHunkParsedThenRejected ==
    pc = "p_validated" =>
        LET lines == PatchLines
            fh == FileHeaderPositions(lines)
        IN  \A k \in 1..Len(fh) :
                HunkHeadersOf(lines, fh, k) = <<>> =>
                    /\ Len(files_data) >= k
                    /\ files_data[k].hunks = <<>>
                    /\ ~results[1].success

\* the first file has a hunk, the second has none, and validation said no
C12_Witness ==
    /\ pc = "p_validated"
    /\ Len(files_data) = 2
    /\ files_data[1].hunks # <<>>
    /\ files_data[2].hunks = <<>>
    /\ ~results[1].success
    /\ LET lines == PatchLines
           fh == FileHeaderPositions(lines)
       IN  Len(fh) = 2 /\ HunkHeadersOf(lines, fh, 2) = <<>>

\* a line that starts with '@@' stands before the first file header
HasOrphanHeader(lines) ==
    LET fh == FileHeaderPositions(lines)
        first == IF fh = <<>> THEN Len(lines) + 1 ELSE fh[1]
    IN  \E i \in 1..(first - 1) : StartsWith(lines[i], HunkMarker)

(* C13: parse fails with a ParseError, and returns no file records, when a
   hunk header line stands outside every file header or when a line that
   starts with '@@' does not match the hunk-header grammar: such a line is
   never skipped silently. *)
C13_BadHunkHeaderFailsParse ==
    (HasOrphanHeader(PatchLines) \/ HasBadHeader(patch_content)) => ~ParseReturned

----------------------------------------------------------------------------
(* The hunks of a patch text and the lines behind each hunk header *)

\* the hunks of all file records, in order
RECURSIVE AllHunks(_)
AllHunks(fd) == IF fd = <<>> THEN <<>> ELSE Head(fd).hunks \o AllHunks(Tail(fd))

\* the hunk headers that stand behind a file header
OpenedHunks(lines) ==
    LET fh == FileHeaderPositions(lines)
    IN  IF fh = <<>> THEN <<>> ELSE HunkHeaderPositions(lines, fh[1] + 1, Len(lines))

StartsHunkLine(l) == l # <<>> /\ l[1] \in {" ", "+", "-"}
EndsHunk(l) == StartsWith(l, HunkMarker) \/ StartsWith(l, ThreeDashes)

\* the first position behind i of a line that satisfies Test, or Len(lines) + 1
FirstBehind(lines, i, Test(_)) ==
    LET hits == {j \in (i + 1)..Len(lines) : Test(lines[j])}
    IN  IF hits = {} THEN Len(lines) + 1
        ELSE CHOOSE j \in hits : \A q \in hits : j <= q

\* the lines behind the header at i up to the first line that starts with
\* none of ' ', '+', '-' or that ends the hunk
RunUntilOther(lines, i) ==
    LET Stops(l) == ~StartsHunkLine(l) \/ EndsHunk(l)
    IN  SubSeq(lines, i + 1, FirstBehind(lines, i, Stops) - 1)

\* the lines behind the header at i that start with ' ', '+' or '-', up to
\* the first line that starts with '@@' or '---'
RunSkippingOther(lines, i) ==
    SelectSeq(SubSeq(lines, i + 1, FirstBehind(lines, i, EndsHunk) - 1), StartsHunkLine)

(* C19, as claimed: while a hunk is open a line whose first character is not
   space, '+' or '-' ends the hunk's line collection: the hunk holds the
   lines behind its header up to that line and none of the later ones. *)
C19_OtherLineEndsHunk ==
    ParseReturned =>
        LET lines == PatchLines
            opened == OpenedHunks(lines)
            hunks == AllHunks(files_data)
        IN  /\ Len(hunks) = Len(opened)
            /\ \A n \in 1..Len(hunks) : hunks[n].lines = RunUntilOther(lines, opened[n])

(* C19, amended: while a hunk is open a line whose first character is not
   space, '+' or '-' is ignored and does not end the hunk's line collection:
   the hunk holds every line that starts with space, '+' or '-' behind its
   header up to the next line that starts with '@@' or '---' or the end of
   the text, and the file record stays open. *)
C19_OtherLineIsSkipped ==
    ParseReturned =>
        LET lines == PatchLines
            opened == OpenedHunks(lines)
            hunks == AllHunks(files_data)
        IN  /\ Len(hunks) = Len(opened)
            /\ \A n \in 1..Len(hunks) : hunks[n].lines = RunSkippingOther(lines, opened[n])

\* '+x', '#', '+x' behind the hunk header of f, and then another hunk: the
\* first hunk holds both '+x' lines and the record of f holds both hunks
C19_Witness ==
    /\ ParseReturned
    /\ patch_content =
         Join(<<OldFileMarker \o OldF, HunkHeader(1, 1, 1, 1),
                Add(<<"x">>), OtherLine, Add(<<"x">>), ShortHeader>>, <<NL>>)
    /\ Len(files_data) = 1
    /\ Len(files_data[1].hunks) = 2
    /\ files_data[1].hunks[1].lines = <<Add(<<"x">>), Add(<<"x">>)>>

\* the four numbers of a hunk header line, a count left out read as 1
HeaderNumbers(line) ==
    LET m == MatchHunkHeader(line)
    IN  <<StrToInt(m.g1), IF m.g2 = <<>> THEN 1 ELSE StrToInt(m.g2),
          StrToInt(m.g3), IF m.g4 = <<>> THEN 1 ELSE StrToInt(m.g4)>>

NumbersOf(hunk) == <<hunk.old_start, hunk.old_count, hunk.new_start, hunk.new_count>>

(* C20: every line that starts with the old-file marker opens a new file
   record and closes the one before: parse returns one record for each such
   line, in the order of the text, each with the path of its line and with
   exactly the hunks whose headers stand between its line and the next
   old-file line, in the order of the text. *)
C20_OneRecordPerFileHeader ==
    ParseReturned =>
        LET lines == PatchLines
            fh == FileHeaderPositions(lines)
        IN  /\ Len(files_data) = Len(fh)
            /\ \A k \in 1..Len(fh) :
                  LET hh == HunkHeadersOf(lines, fh, k) IN
                  /\ files_data[k].original_file = Strip(DropFirst(lines[fh[k]], 4))
                  /\ Len(files_data[k].hunks) = Len(hh)
                  /\ \A n \in 1..Len(hh) :
                        NumbersOf(files_data[k].hunks[n]) = HeaderNumbers(lines[hh[n]])

\* f with its hunk, then g opened inside that hunk with two hunks of its own
C20_Witness ==
    /\ ParseReturned
    /\ patch_content =
         Join(<<OldFileMarker \o OldF, HunkHeader(1, 1, 1, 1), Add(<<"x">>),
                OldFileMarker \o OldG, ShortHeader, ShortHeader>>, <<NL>>)
    /\ Len(files_data) = 2
    /\ files_data[1].original_file = OldF
    /\ Len(files_data[1].hunks) = 1
    /\ files_data[2].original_file = OldG
    /\ Len(files_data[2].hunks) = 2
    /\ files_data[2].hunks[1].old_start = 2

----------------------------------------------------------------------------
\* a written count, and 1 for a count the header leaves out
CountOrOne(c) == IF c = <<>> THEN 1 ELSE c[1]

\* every written header with the four numbers it was written from
HeaderCases ==
    {[text |-> HeaderPatch(os, oc, ns, nc),
      numbers |-> <<os, CountOrOne(oc), ns, CountOrOne(nc)>>] :
        os \in HeaderStarts, oc \in HeaderCounts, ns \in HeaderStarts, nc \in HeaderCounts}

(* C21: a hunk header yields the four integers old_start, old_count,
   new_start, new_count as written; a count that is missing from the header
   is 1, and a count written as 0 stays 0. *)
C21_HeaderNumbersAsWritten ==
    ParseReturned =>
        \A c \in HeaderCases :
            patch_content = c.text =>
                /\ Len(files_data) = 1
                /\ Len(files_data[1].hunks) = 1
                /\ NumbersOf(files_data[1].hunks[1]) = c.numbers

\* '@@ -12 +1,0 @@' has been parsed: the old count is missing, the new count
\* is written as 0
C21_Witness ==
    /\ ParseReturned
    /\ patch_content = HeaderPatch(12, <<>>, 1, <<0>>)
    /\ Len(files_data) = 1
    /\ Len(files_data[1].hunks) = 1
    /\ NumbersOf(files_data[1].hunks[1]) = <<12, 1, 1, 0>>

----------------------------------------------------------------------------
\* p is the working directory or lies below it, component by component
Contained(p) == p = BaseDir \/ StartsWith(p, BaseDir \o <<Slash>>)

(* C22: apply_patch_file never writes or creates a file outside base_dir:
   for every file path in the patch (paths with '..' and paths into a
   sibling directory whose name has base_dir's name as a prefix included), a
   target that resolves outside base_dir gets a failure result and nothing
   is written there. *)
C22_NothingWrittenOutsideBase ==
    /\ \A p \in DOMAIN fs \cup DOMAIN fs0 : ~Contained(p) => SameFile(fs, fs0, p)
    /\ \A k \in 1..Len(results) :
          (files_data # <<>> /\ ~Contained(FullPath(files_data[k])))
             => ~results[k].success

----------------------------------------------------------------------------
\* every patch of marker-like hunk lines with the lines it was written from
MarkerCases ==
    {[text |-> MarkerPatch(ls), lines |-> ls] :
        ls \in SeqsOf(MarkerLineChoices, 1, MaxHunkLines)}

(* C23: inside an open hunk, every line that starts with '+' or '-' is a
   line of that hunk: a Removed line whose text begins with '--' and an
   Added line whose text begins with '++ ' are collected as hunk lines and
   never end the hunk, start a new file record or change the file's target
   path. *)
C23_MarkerLikeLinesStayInHunk ==
    ParseReturned =>
        \A c \in MarkerCases :
            patch_content = c.text =>
                /\ Len(files_data) = 1
                /\ files_data[1].original_file = OldF
                /\ files_data[1].modified_file = <<>>
                /\ Len(files_data[1].hunks) = 1
                /\ files_data[1].hunks[1].lines = c.lines

----------------------------------------------------------------------------
(* C24: apply_patch_file with dry_run=True modifies no file and creates no
   file or directory, for any patch; it returns one result per file record,
   successful for every path inside base_dir. *)
C24_DryRunTouchesNothing ==
    /\ fs = fs0
    /\ (pc = "d_done" /\ files_data # <<>>) =>
          /\ Len(results) = Len(files_data)
          /\ \A k \in 1..Len(files_data) :
                Contained(FullPath(files_data[k])) => results[k].success

\* a dry run over two records inside the working directory has returned, and
\* applying the first record would have changed its file
C24_Witness ==
    /\ pc = "d_done"
    /\ Len(files_data) = 2
    /\ Len(results) = 2
    /\ \A k \in 1..2 : Contained(FullPath(files_data[k])) /\ results[k].success
    /\ ProcessFile(fs, files_data[1]).result.success
    /\ ProcessFile(fs, files_data[1]).fs # fs
    /\ fs = fs0

----------------------------------------------------------------------------
\* the edit command has not got past the validation and the confirmation
BeforeConfirmed == pc \in {"e_generated", "e_invalid", "e_valid", "e_cancelled"}

\* a step that changes a file or creates one, the backup included
C25_Step ==
    fs' # fs =>
        /\ patch_content # <<>>
        /\ validate_patch(patch_content).success
        /\ ~BeforeConfirmed

(* C25: in the edit command the target file is written only after the
   generated patch passed validate_patch and the user confirmed; if
   validation fails or the user declines, the file content is unchanged and
   no backup is created. *)
C25_WriteOnlyAfterConfirm ==
    /\ [](BeforeConfirmed => fs = fs0)
    /\ [](pc \in {"e_confirmed", "e_backed_up", "e_done", "e_failed"}
            => patch_content # <<>> /\ validate_patch(patch_content).success)
    /\ [][C25_Step]_vars

\* a valid patch was confirmed and the file holds new content
C25_Witness ==
    /\ pc = "e_done"
    /\ validate_patch(patch_content).success
    /\ fs[EditPath] # fs0[EditPath]
    /\ BackupPath(EditedFile) \in DOMAIN fs

----------------------------------------------------------------------------
(* C26: in the run command, a command that is_safe_command rejects is
   executed only after the user confirmed the prompt; when the user
   declines, execute_command is never called for it and nothing is logged. *)
C26_RejectedRunsOnlyConfirmed ==
    /\ (~is_safe_command(command).safe /\ executed # <<>>) => asked = <<TRUE>>
    /\ asked = <<FALSE>> => (executed = <<>> /\ command_log = <<>>)
    /\ command_log # <<>> => executed # <<>>

\* a rejected command was confirmed, executed and logged
C26_Witness ==
    /\ ~is_safe_command(command).safe
    /\ asked = <<TRUE>>
    /\ executed = <<command>>
    /\ Len(command_log) = 1

----------------------------------------------------------------------------
\* the attempts made so far that gave an answer
Succeeded == {k \in 1..Len(outcomes) : ~outcomes[k].raised}

C27_Attempts ==
    /\ Len(outcomes) <= max_retries
    /\ \A k \in Succeeded : k = Len(outcomes) /\ pc = "c_returned"
    /\ pc = "c_returned" =>
          /\ Succeeded # {} => chat_return = <<outcomes[Len(outcomes)].content>>
          /\ chat_return = <<>> <=> Succeeded = {}

(* C27: LLMClient.chat makes at most max_retries attempts, returns the
   content of the first attempt that succeeds without making a further
   attempt, and returns None exactly when every attempt failed; it always
   terminates. *)
C27_BoundedRetries == []C27_Attempts /\ <>(pc = "c_returned")

\* chat returned the content of its third attempt after two that failed
C27_Witness ==
    /\ pc = "c_returned"
    /\ Len(outcomes) = 3
    /\ outcomes[1].raised /\ outcomes[2].raised /\ ~outcomes[3].raised
    /\ chat_return = <<outcomes[3].content>>

----------------------------------------------------------------------------
\* the ids of the todos of a state
TodoIds(state) == {state.todos[k].id : k \in 1..Len(state.todos)}

C28_Ids ==
    agent_state # <<>> =>
        LET todos == agent_state[1].todos IN
        /\ \A i, j \in 1..Len(todos) : i < j => todos[i].id < todos[j].id
        /\ \A i \in 1..Len(todos) : todos[i].id < agent_state[1].next_todo_id

\* a call of mark_todo_done with an id no todo has
C28_Step ==
    (/\ last_return'.op = "mark_todo_done"
     /\ agent_state # <<>>
     /\ last_return'.arg \notin TodoIds(agent_state[1]))
    => /\ ~last_return'.value
       /\ agent_state' = agent_state
       /\ state_file' = state_file

(* C28: after any sequence of add_todo, add_plan_todos and mark_todo_done on
   an AgentState that starts empty, all todo ids are distinct, ids increase
   in list order, and next_todo_id is greater than every existing id;
   mark_todo_done with an unknown id returns False and changes nothing. *)
C28_TodoIdsIncrease == []C28_Ids /\ [][C28_Step]_vars

\* two todos from a plan, and mark_todo_done(3) has returned False
C28_Witness ==
    /\ agent_state # <<>>
    /\ Len(agent_state[1].todos) = 2
    /\ agent_state[1].todos[1].id = 1 /\ agent_state[1].todos[2].id = 2
    /\ agent_state[1].next_todo_id = 3
    /\ last_return = Returned("mark_todo_done", 3, FALSE)

----------------------------------------------------------------------------
(* C29: after any sequence of mark_completed, mark_in_progress and cancel on
   a TodoItem, the completed timestamp is set if and only if the status is
   'completed'. *)
C29_CompletedIffStatus ==
    agent_state # <<>> =>
        \A k \in 1..Len(agent_state[1].todos) :
            agent_state[1].todos[k].completed # <<>>
                <=> agent_state[1].todos[k].status = "completed"

----------------------------------------------------------------------------
\* the same todos (ids, titles, statuses, in the same order) and the same
\* next_todo_id
SameTodos(a, b) ==
    /\ Len(a.todos) = Len(b.todos)
    /\ \A k \in 1..Len(a.todos) :
          /\ a.todos[k].id = b.todos[k].id
          /\ a.todos[k].title = b.todos[k].title
          /\ a.todos[k].status = b.todos[k].status
    /\ a.next_todo_id = b.next_todo_id

C30_Loaded ==
    (pc = "s_saved" /\ fresh_state # <<>>) =>
        /\ SameTodos(fresh_state[1], agent_state[1])
        /\ file_reads = 1

\* a manager that holds a state keeps it and leaves the file closed
C30_Step ==
    fresh_state # <<>> => (fresh_state' = fresh_state /\ file_reads' = file_reads)

(* C30: state persistence round trip: after save_state succeeds, load_state
   in a fresh StateManager on the same file returns a state with the same
   todos (ids, titles, statuses, in the same order) and the same
   next_todo_id; within one StateManager, repeated load_state/get_state
   calls return the same state object without re-reading the file. *)
C30_SaveLoadRoundTrip == []C30_Loaded /\ [][C30_Step]_vars

\* a state of two todos, one completed and one cancelled, was saved and a
\* fresh manager has loaded it
C30_Witness ==
    /\ pc = "s_saved"
    /\ fresh_state # <<>>
    /\ file_reads = 1
    /\ Len(agent_state[1].todos) = 2
    /\ agent_state[1].todos[1].status = "completed"
    /\ agent_state[1].todos[2].status = "cancelled"
    /\ SameTodos(fresh_state[1], agent_state[1])
    /\ fresh_state[1].next_todo_id = 3

----------------------------------------------------------------------------
(* C4: round trip.  The unified diff generated between a file's content and
   a different new content, parsed and applied to the file, gives the new
   content again, and the parsed result is one file record with at least
   one hunk. *)
C4_RoundTrip ==
    pc = "rt_done"
    => /\ Len(files_data) = 1
       /\ Len(files_data[1].hunks) >= 1
       /\ TextAt(fs, PathF) = modified

====
